---- MODULE Spec2Model ----
(***************************************************************************)
(* Model of the CRYSTAL23 SLURM job queue manager                          *)
(* (code/crystal_queue_manager.py): the JobQueueManager bookkeeping of     *)
(* pending / submitted / completed jobs, its scheduler queries, its        *)
(* capacity policy and its write-temp-then-rename status persistence.      *)
(***************************************************************************)
EXTENDS Integers, Sequences, FiniteSets, TLC

VARIABLES
    job_status,     \* self.job_status: [pending, submitted, completed]
    status_file,    \* self.status_file: the path saves go to
    save_failed,    \* self.save_failed
    max_jobs,       \* self.max_jobs
    reserve_slots,  \* self.reserve_slots
    files,          \* the files under d12_dir: a set of <<dir, stem, ext>>
    queue,          \* job IDs the scheduler lists for the user (squeue)
    nextId,         \* index of the next job ID the scheduler hands out
    fs,             \* the file system: path -> [exists, readable, utf8, data]
    pc,             \* position of the manager: "idle" or "submitting"
    batch,          \* process_queue: pending_jobs[:available_slots]
    idx,            \* process_queue: index of the next job of batch
    cycle,          \* process_queue's locals: current_jobs, max_submit, submitted_count
    faultsLeft,     \* storage faults the environment may still inject
    wpc,            \* _try_save_status of each writer process: position
    wdoc,           \* the job_status each writer process is saving
    wfd,            \* the file each writer's open descriptor refers to
    woff,           \* the write offset of each writer's descriptor
    wlog,           \* what each writer's save saw and how it ended
    overlap,        \* two saves have been under way at the same time
    loaded,         \* result of the last load_status call
    input,          \* what the running toolbox script has been given to read
    scr,            \* the locals of the running toolbox script
    output          \* what the running toolbox script has written

vars == <<job_status, status_file, save_failed, max_jobs, reserve_slots,
          files, queue, nextId, fs, pc, batch, idx, cycle, faultsLeft,
          wpc, wdoc, wfd, woff, wlog, overlap, loaded, input, scr, output>>

mgrVars == <<job_status, status_file, save_failed, max_jobs, reserve_slots,
             files, queue, nextId, pc, batch, idx, cycle, faultsLeft>>
wrVars == <<wpc, wdoc, wfd, woff, wlog, overlap>>
toolVars == <<input, scr, output>>
queueVars == <<mgrVars, fs, wrVars, loaded>>

----------------------------------------------------------------------------
(* Bounds of the model *)

\* number of distinct job names (file stems) that can appear under d12_dir
MaxNames == 2
\* largest max_jobs, reserve_slots and foreign-job count the model draws
MaxCap == 2
\* number of decks in the job directory of the capacity runs
MaxQueued == 3
\* number of save_status calls of one run that storage faults can strike
MaxFaults == 1
\* number of buffer flushes json.dump needs for one status document
Chunks == 2
\* number of materials (log files) a scraper run finds
MaxMaterials == 2
\* number of lines of a simulation log the scrapers read
MaxLines == 3

Names == 1..MaxNames

\* d12_dir itself and one subdirectory; os.walk is top-down, root first
Root == "root"
Sub == "sub"

\* Files that can exist under d12_dir: a .d12 deck per name in the root,
\* a second deck of name 1 in the subdirectory, and one non-deck file.
FileUniverse ==
    {<<Root, n, "d12">> : n \in Names} \cup {<<Sub, 1, "d12">>, <<Root, 1, "out">>}

\* Job IDs the scheduler hands out, in order
IdStr == <<"101", "102", "103", "104", "105", "106", "107", "108">>

\* The candidate locations of the status file and their temp files
Cfg == "cfg"
Home == "home"
Tmp == "tmp"
AllPaths == {"cfg", "home", "tmp", "cfg.tmp", "home.tmp", "tmp.tmp"}

----------------------------------------------------------------------------
(* Sequence helpers *)

Range(s) == {s[i] : i \in 1..Len(s)}

InSeq(x, s) == \E i \in 1..Len(s) : s[i] = x

NoDup(s) == \A i, j \in 1..Len(s) : s[i] = s[j] => i = j

Max(a, b) == IF a >= b THEN a ELSE b

Min(a, b) == IF a <= b THEN a ELSE b

\* list.remove(x): drops the first occurrence of x
RemoveFirst(s, x) ==
    LET i == CHOOSE k \in 1..Len(s) : s[k] = x /\ \A j \in 1..(k - 1) : s[j] # x
    IN  SubSeq(s, 1, i - 1) \o SubSeq(s, i + 1, Len(s))

\* Python's s[:k], negative k counting from the end
SliceTo(s, k) ==
    IF k >= 0 THEN SubSeq(s, 1, Min(k, Len(s)))
    ELSE SubSeq(s, 1, Max(0, Len(s) + k))

Perms(S) == {p \in [1..Cardinality(S) -> S] : \A i, j \in DOMAIN p : p[i] = p[j] => i = j}

----------------------------------------------------------------------------
(* The status document and its serialisation *)

\* load_status: default_status
DefaultStatus == [pending |-> <<>>, submitted |-> <<>>, completed |-> <<>>]

\* dict helpers: submitted is kept as the insertion-ordered list of items
SubmittedNames(js) == {js.submitted[i].name : i \in 1..Len(js.submitted)}

PendingNames(js) == Range(js.pending)

CompletedNames(js) == Range(js.completed)

\* json.dump(self.job_status, f, indent=2): the text leaves the buffered
\* writer in Chunks flushes; a chunk is identified by its document and part
Serialize(doc) == [k \in 1..Chunks |-> [doc |-> doc, part |-> k]]

\* a hole left by writing beyond the end of a truncated file
Hole == [doc |-> DefaultStatus, part |-> 0]

Absent == [exists |-> FALSE, readable |-> TRUE, utf8 |-> TRUE, data |-> <<>>]

\* the bytes are the complete text of one document
Complete(data) ==
    /\ Len(data) = Chunks
    /\ \A k \in 1..Chunks : data[k].part = k /\ data[k].doc = data[1].doc

\* open(path, 'r') + json.load(f): the value, or the exception raised
JsonLoad(file) ==
    IF ~file.readable THEN [exc |-> "OSError", data |-> DefaultStatus]
    ELSE IF ~file.utf8 THEN [exc |-> "UnicodeDecodeError", data |-> DefaultStatus]
    ELSE IF Complete(file.data) THEN [exc |-> "none", data |-> file.data[1].doc]
    ELSE [exc |-> "JSONDecodeError", data |-> DefaultStatus]

----------------------------------------------------------------------------
(* File-system primitives *)

\* open(path, 'w'): creates the file or truncates it
FsOpenW(f, path) ==
    [f EXCEPT ![path] = [exists |-> TRUE, readable |-> (~f[path].exists \/ f[path].readable),
                         utf8 |-> TRUE, data |-> <<>>]]

\* write(chunk) through a descriptor at offset off (0-based, in chunks)
FsWriteAt(f, path, off, chunk) ==
    LET old == f[path].data
        n == Max(Len(old), off + 1)
        new == [i \in 1..n |-> IF i = off + 1 THEN chunk
                               ELSE IF i <= Len(old) THEN old[i] ELSE Hole]
    IN  [f EXCEPT ![path].data = new]

\* os.rename(src, dst): dst atomically becomes the file src named
FsRename(f, src, dst) ==
    IF src = dst THEN f ELSE [f EXCEPT ![dst] = f[src], ![src] = Absent]

\* os.remove(path)
FsRemove(f, path) == [f EXCEPT ![path] = Absent]

----------------------------------------------------------------------------
(* Status persistence: _try_save_status and save_status *)

\* the document written straight to its destination, no temp file
TempOf_InPlace(filepath) == filepath

\* temp_file = f"{filepath}.tmp"
TempOf(filepath) ==
    CASE filepath = "cfg" -> "cfg.tmp"
      [] filepath = "home" -> "home.tmp"
      [] filepath = "tmp" -> "tmp.tmp"
      [] OTHER -> filepath

RECURSIVE WriteChunks(_, _, _, _, _)
\* json.dump through the open descriptor: chunks from..to of doc, in order
WriteChunks(f, path, doc, from, to) ==
    IF from > to THEN f
    ELSE WriteChunks(FsWriteAt(f, path, from - 1, Serialize(doc)[from]), path, doc, from + 1, to)

\* the except branch: remove the temp file if it exists
CleanupTemp(f, temp) == IF f[temp].exists THEN FsRemove(f, temp) ELSE f

\* _try_save_status(filepath) run to its end by a single process, the
\* fault naming the statement that raises: the file system it leaves and
\* the value it returns
TrySaveStatus(f, filepath, doc, fault) ==
    LET temp == TempOf(filepath)
        opened == FsOpenW(f, temp)
        partial == WriteChunks(opened, temp, doc, 1, Chunks - 1)
        written == WriteChunks(opened, temp, doc, 1, Chunks)
    IN  CASE fault = "open" -> [ok |-> FALSE, fs |-> CleanupTemp(f, temp)]
          [] fault = "write" -> [ok |-> FALSE, fs |-> CleanupTemp(partial, temp)]
          [] fault = "move" -> [ok |-> FALSE, fs |-> CleanupTemp(written, temp)]
          [] OTHER -> [ok |-> TRUE, fs |-> FsRename(written, temp, filepath)]

\* the alternate locations tried without clearing save_failed on success
AltSave_KeepsFlag(f, sf, doc, faults, i, tried) ==
    LET r1 == TrySaveStatus(f, Home, doc, faults[i])
        r2 == TrySaveStatus(r1.fs, Tmp, doc, faults[i + 1])
    IN  IF r1.ok
        THEN [fs |-> r1.fs, status_file |-> Home, save_failed |-> TRUE,
              tried |-> tried \o <<Home>>, saved |-> TRUE]
        ELSE IF r2.ok
        THEN [fs |-> r2.fs, status_file |-> Tmp, save_failed |-> TRUE,
              tried |-> tried \o <<Home, Tmp>>, saved |-> TRUE]
        ELSE [fs |-> r2.fs, status_file |-> sf, save_failed |-> TRUE,
              tried |-> tried \o <<Home, Tmp>>, saved |-> FALSE]

\* save_status with save_failed set: the alternate locations, in order
\* (both are named after basename(status_file), the same for every location)
AltSave(f, sf, doc, faults, i, tried) ==
    LET r1 == TrySaveStatus(f, Home, doc, faults[i])
        r2 == TrySaveStatus(r1.fs, Tmp, doc, faults[i + 1])
    IN  IF r1.ok
        THEN [fs |-> r1.fs, status_file |-> Home, save_failed |-> FALSE,
              tried |-> tried \o <<Home>>, saved |-> TRUE]
        ELSE IF r2.ok
        THEN [fs |-> r2.fs, status_file |-> Tmp, save_failed |-> FALSE,
              tried |-> tried \o <<Home, Tmp>>, saved |-> TRUE]
        ELSE [fs |-> r2.fs, status_file |-> sf, save_failed |-> TRUE,
              tried |-> tried \o <<Home, Tmp>>, saved |-> FALSE]

\* save_status(): faults[k] is the fault of the k-th _try_save_status call
SaveStatus(f, sf, failed, doc, faults) ==
    IF failed THEN AltSave(f, sf, doc, faults, 1, <<>>)
    ELSE LET r == TrySaveStatus(f, sf, doc, faults[1])
         IN  IF r.ok
             THEN [fs |-> r.fs, status_file |-> sf, save_failed |-> FALSE,
                   tried |-> <<sf>>, saved |-> TRUE]
             ELSE AltSave(r.fs, sf, doc, faults, 2, <<sf>>)

----------------------------------------------------------------------------
(* Directory scan and scheduler reconciliation: update_job_status *)

Stems(fset) == {f[2] : f \in fset}

\* the entries of one directory, in scandir order perm, filtered on '.d12'
DirList(fset, perm, d) ==
    LET s == SelectSeq(perm, LAMBDA n : <<d, n, "d12">> \in fset)
    IN  [i \in 1..Len(s) |-> [name |-> s[i], path |-> <<d, s[i], "d12">>]]

\* find_d12_files that lists d12_dir only, without its subdirectories
FindD12Files_RootOnly(fset, perm) == DirList(fset, perm, Root)

\* find_d12_files(): os.walk top-down, the (job_name, d12_path) pairs
FindD12Files(fset, perm) == DirList(fset, perm, Root) \o DirList(fset, perm, Sub)

KnownJob(js, n) ==
    n \in SubmittedNames(js) \/ InSeq(n, js.pending) \/ InSeq(n, js.completed)

RECURSIVE ScanFrom(_, _, _)
ScanFrom(js, d12, i) ==
    IF i > Len(d12) THEN js
    ELSE LET n == d12[i].name
             js2 == IF ~KnownJob(js, n) THEN [js EXCEPT !.pending = Append(@, n)] ELSE js
         IN  ScanFrom(js2, d12, i + 1)

RECURSIVE ScanFrom_NoPendingCheck(_, _, _)
ScanFrom_NoPendingCheck(js, d12, i) ==
    IF i > Len(d12) THEN js
    ELSE LET n == d12[i].name
             js2 == IF n \notin SubmittedNames(js) /\ ~InSeq(n, js.completed)
                    THEN [js EXCEPT !.pending = Append(@, n)] ELSE js
         IN  ScanFrom_NoPendingCheck(js2, d12, i + 1)

\* the scan without the test "job_name not in pending"
ScanNew_NoPendingCheck(js, d12) == ScanFrom_NoPendingCheck(js, d12, 1)

RECURSIVE ScanFrom_NoCompletedCheck(_, _, _)
ScanFrom_NoCompletedCheck(js, d12, i) ==
    IF i > Len(d12) THEN js
    ELSE LET n == d12[i].name
             js2 == IF n \notin SubmittedNames(js) /\ ~InSeq(n, js.pending)
                    THEN [js EXCEPT !.pending = Append(@, n)] ELSE js
         IN  ScanFrom_NoCompletedCheck(js2, d12, i + 1)

\* the scan without the test "job_name not in completed"
ScanNew_NoCompletedCheck(js, d12) == ScanFrom_NoCompletedCheck(js, d12, 1)

\* the loop "Check for new d12 files"
ScanNew(js, d12) == ScanFrom(js, d12, 1)

\* what the squeue --format=%i call of update_job_status yields as
\* running_jobs: the listed IDs, or nothing when the call fails
RunningJobs(sq, listing) == IF sq = "ok" THEN listing ELSE {}

SqOutcomes == {"ok", "nonzero", "timeout", "error"}

\* dict.pop(name)
DictPop(items, n) == SelectSeq(items, LAMBDA it : it.name # n)

\* dict[name] = id: in place when the key exists, appended otherwise
DictSet(items, n, id) ==
    IF \E i \in 1..Len(items) : items[i].name = n
    THEN [i \in 1..Len(items) |-> IF items[i].name = n THEN [name |-> n, id |-> id] ELSE items[i]]
    ELSE Append(items, [name |-> n, id |-> id])

RECURSIVE ReconcileFrom(_, _, _, _)
ReconcileFrom(js, items, running, i) ==
    IF i > Len(items) THEN js
    ELSE LET it == items[i]
             js2 == IF it.id \notin running
                    THEN [js EXCEPT !.submitted = DictPop(@, it.name),
                                    !.completed = IF InSeq(it.name, @) THEN @ ELSE Append(@, it.name)]
                    ELSE js
         IN  ReconcileFrom(js2, items, running, i + 1)

\* the reconciliation finding no submitted ID in the listing (IDs compared
\* as another type than the listed strings)
Reconcile_NeverListed(js, sq, listing) ==
    IF js.submitted = <<>> THEN js
    ELSE ReconcileFrom(js, js.submitted, {}, 1)

\* the block "if submitted_ids: ... Update completed jobs"
Reconcile(js, sq, listing) ==
    IF js.submitted = <<>> THEN js
    ELSE ReconcileFrom(js, js.submitted, RunningJobs(sq, listing), 1)

----------------------------------------------------------------------------
(* Submission: submit_job, get_current_jobs, process_queue *)

Marker == <<"Submitted", "batch", "job">>

\* "Submitted batch job" in output
HasMarker(tokens) ==
    \E i \in 1..(Len(tokens) - 2) : SubSeq(tokens, i, i + 2) = Marker

\* What running "{job_dir}/submitcrystal23.sh {job_name}" can give when the
\* scheduler would hand out id: status, stdout (as tokens), and whether the
\* scheduler queued the job
Runs(id) ==
    { [status |-> "ok", stdout |-> Marker \o <<id>>, queued |-> TRUE],
      [status |-> "ok", stdout |-> Marker \o <<id, "on", "cluster", "hpc">>, queued |-> TRUE],
      [status |-> "ok", stdout |-> <<"sbatch:", "error">>, queued |-> FALSE],
      [status |-> "ok", stdout |-> <<>>, queued |-> FALSE],
      [status |-> "nonzero", stdout |-> <<>>, queued |-> FALSE],
      [status |-> "timeout", stdout |-> <<>>, queued |-> FALSE],
      [status |-> "exception", stdout |-> <<>>, queued |-> FALSE] }

\* job_id = output.split()[3]: the token after the marker
JobIdOf_Fourth(tokens) == tokens[4]

\* job_id = output.split()[-1]
JobIdOf(tokens) == tokens[Len(tokens)]

\* submit_job that leaves the submitted job in pending
SubmitJob_KeepsPending(js, job_name, run) ==
    IF run.status = "ok" /\ HasMarker(run.stdout)
    THEN [ok |-> TRUE,
          js |-> [js EXCEPT !.submitted = DictSet(@, job_name, JobIdOf(run.stdout))]]
    ELSE [ok |-> FALSE, js |-> js]

\* submit_job(job_name, d12_path): the value returned and the status left
SubmitJob(js, job_name, run) ==
    IF run.status = "ok" /\ HasMarker(run.stdout)
    THEN [ok |-> TRUE,
          js |-> [js EXCEPT !.submitted = DictSet(@, job_name, JobIdOf(run.stdout)),
                            !.pending = IF InSeq(job_name, @) THEN RemoveFirst(@, job_name) ELSE @]]
    ELSE [ok |-> FALSE, js |-> js]

\* get_current_jobs(): the number of lines squeue prints, 0 when it fails
GetCurrentJobs(sq, lines) == IF sq = "ok" THEN lines ELSE 0

\* "Find pending jobs with d12 files" taking every listed path of a
\* pending name, not the first one only
PendingJobs_EveryPath(js, d12) ==
    SelectSeq(d12, LAMBDA e : InSeq(e.name, js.pending))

\* "Find pending jobs with d12 files": the first listed path of each name
PendingJobs(js, d12) ==
    LET has == SelectSeq(js.pending, LAMBDA n : \E i \in 1..Len(d12) : d12[i].name = n)
    IN  [k \in 1..Len(has) |->
            d12[CHOOSE i \in 1..Len(d12) :
                    d12[i].name = has[k] /\ \A j \in 1..(i - 1) : d12[j].name # has[k]]]

NoMaxSubmit == [given |-> FALSE, n |-> 0]

\* --max-submit: absent, or an integer
MaxSubmits == {NoMaxSubmit} \cup {[given |-> TRUE, n |-> k] : k \in (-1)..MaxCap}

\* available_slots after the reserve and max_submit are applied
AvailableSlots(raw, reserve, ms) ==
    IF ms.given THEN Min(raw - reserve, ms.n) ELSE raw - reserve

\* the jobs one process_queue cycle will attempt
Batch(js, d12, mj, reserve, current, ms) ==
    LET raw == Max(0, mj - current)
    IN  IF raw <= reserve THEN <<>>
        ELSE SliceTo(PendingJobs(js, d12), AvailableSlots(raw, reserve, ms))

----------------------------------------------------------------------------
(* The manager as a state machine *)

NoFaults == <<"none", "none", "none">>

\* the faults one save_status call meets, by _try_save_status call
FaultSeqs ==
    { NoFaults, <<"open", "none", "none">>,
      <<"write", "move", "none">>, <<"move", "open", "write">> }

\* storage faults strike at most MaxFaults save_status calls of a run
FaultChoices == IF faultsLeft > 0 THEN FaultSeqs ELSE {NoFaults}

\* the listings find_d12_files can return for the files present
Listings(fset) == {FindD12Files(fset, perm) : perm \in Perms(Stems(fset))}

\* the running_jobs update_job_status can obtain from squeue
RunningReads(q) == {RunningJobs(sq, q) : sq \in SqOutcomes}

\* the counts get_current_jobs can return: the user's own jobs in the
\* queue plus up to MaxCap jobs submitted outside the manager, or 0
CurrentReads(q) ==
    {GetCurrentJobs(sq, Cardinality(q) + g) : sq \in SqOutcomes, g \in 0..MaxCap}

\* the locals of process_queue outside a cycle
NoCycle == [live |-> 0, ms |-> NoMaxSubmit, count |-> 0]

NoLoad == [done |-> FALSE, raised |-> FALSE, data |-> DefaultStatus, from |-> Cfg]

\* a manager as constructed: default status, configured path, idle
MgrInit ==
    /\ job_status = DefaultStatus
    /\ status_file = Cfg
    /\ save_failed = FALSE
    /\ max_jobs = MaxCap
    /\ reserve_slots \in {0, 1}
    /\ queue = {}
    /\ nextId = 1
    /\ pc = "idle"
    /\ batch = <<>>
    /\ idx = 1
    /\ cycle = NoCycle

\* no other script of the toolbox is running
NoTool == input = <<>> /\ scr = <<>> /\ output = <<>>

\* no status file anywhere, no other process
EmptyStore ==
    /\ fs = [p \in AllPaths |-> Absent]
    /\ wpc = <<>> /\ wdoc = <<>> /\ wfd = <<>> /\ woff = <<>> /\ wlog = <<>>
    /\ overlap = FALSE
    /\ loaded = NoLoad

\* the job directory starts empty and the storage is sound
Init ==
    /\ MgrInit
    /\ EmptyStore
    /\ NoTool
    /\ files = {}
    /\ faultsLeft = 0

\* update_job_status(): scan, reconcile, save
UpdateJobStatus(d12, running, faults) ==
    LET js == Reconcile(ScanNew(job_status, d12), "ok", running)
        sv == SaveStatus(fs, status_file, save_failed, js, faults)
    IN  /\ job_status' = js
        /\ fs' = sv.fs
        /\ status_file' = sv.status_file
        /\ save_failed' = sv.save_failed
        /\ faultsLeft' = IF faults = NoFaults THEN faultsLeft ELSE faultsLeft - 1

\* print_status() going on to submit the first pending job, as
\* process_queue would
PrintStatusWith_ThenSubmits(d12, running, faults) ==
    /\ pc = "idle"
    /\ LET js == Reconcile(ScanNew(job_status, d12), "ok", running)
           js2 == IF js.pending = <<>> THEN js
                  ELSE SubmitJob(js, js.pending[1],
                                 [status |-> "ok", stdout |-> Marker \o <<IdStr[1]>>,
                                  queued |-> TRUE]).js
           sv == SaveStatus(fs, status_file, save_failed, js2, faults)
       IN  /\ job_status' = js2
           /\ fs' = sv.fs
           /\ status_file' = sv.status_file
           /\ save_failed' = sv.save_failed
           /\ faultsLeft' = IF faults = NoFaults THEN faultsLeft ELSE faultsLeft - 1
    /\ UNCHANGED <<max_jobs, reserve_slots, files, queue, nextId, pc, batch, idx, cycle>>
    /\ UNCHANGED <<wrVars, loaded, toolVars>>

\* print_status() with what it reads: update_job_status and the counts
PrintStatusWith(d12, running, faults) ==
    /\ pc = "idle"
    /\ UpdateJobStatus(d12, running, faults)
    /\ UNCHANGED <<max_jobs, reserve_slots, files, queue, nextId, pc, batch, idx, cycle>>
    /\ UNCHANGED <<wrVars, loaded, toolVars>>

PrintStatus ==
    \E d12 \in Listings(files), running \in RunningReads(queue), faults \in FaultChoices :
        PrintStatusWith(d12, running, faults)

\* process_queue(max_submit) up to the submission loop, with what it reads
ProcessQueueBeginWith(d12, running, faults, ms, current) ==
    /\ pc = "idle"
    /\ UpdateJobStatus(d12, running, faults)
    /\ batch' = Batch(job_status', d12, max_jobs, reserve_slots, current, ms)
    /\ cycle' = IF batch' = <<>> THEN NoCycle
                ELSE [live |-> current, ms |-> ms, count |-> 0]
    /\ idx' = 1
    /\ pc' = IF batch' = <<>> THEN "idle" ELSE "submitting"
    /\ UNCHANGED <<max_jobs, reserve_slots, files, queue, nextId>>
    /\ UNCHANGED <<wrVars, loaded, toolVars>>

ProcessQueueBegin ==
    \E d12 \in Listings(files), running \in RunningReads(queue), faults \in FaultChoices,
       ms \in MaxSubmits, current \in CurrentReads(queue) :
        ProcessQueueBeginWith(d12, running, faults, ms, current)

\* the submission loop saving the status once, after its last turn
SubmitNextWith_SaveAtEnd(run, faults) ==
    /\ pc = "submitting"
    /\ LET r == SubmitJob(job_status, batch[idx].name, run)
           sv == SaveStatus(fs, status_file, save_failed, r.js, faults)
           done == idx + 1 > Len(batch)
       IN  /\ job_status' = r.js
           /\ IF done
              THEN /\ fs' = sv.fs
                   /\ status_file' = sv.status_file
                   /\ save_failed' = sv.save_failed
                   /\ faultsLeft' = IF faults = NoFaults THEN faultsLeft ELSE faultsLeft - 1
              ELSE /\ faults = NoFaults
                   /\ UNCHANGED <<fs, status_file, save_failed, faultsLeft>>
           /\ cycle' = IF done THEN NoCycle
                       ELSE [cycle EXCEPT !.count = IF r.ok THEN @ + 1 ELSE @]
           /\ queue' = IF run.queued THEN queue \cup {IdStr[nextId]} ELSE queue
           /\ nextId' = IF run.queued THEN nextId + 1 ELSE nextId
           /\ idx' = IF done THEN 1 ELSE idx + 1
           /\ batch' = IF done THEN <<>> ELSE batch
           /\ pc' = IF done THEN "idle" ELSE "submitting"
    /\ UNCHANGED <<max_jobs, reserve_slots, files>>
    /\ UNCHANGED <<wrVars, loaded, toolVars>>

\* one turn of the loop "Submit jobs up to available slots", with the
\* outcome of the submission command; after the last turn process_queue
\* returns submitted_count
SubmitNextWith(run, faults) ==
    /\ pc = "submitting"
    /\ LET r == SubmitJob(job_status, batch[idx].name, run)
           sv == SaveStatus(fs, status_file, save_failed, r.js, faults)
           done == idx + 1 > Len(batch)
       IN  /\ job_status' = r.js
           /\ IF r.ok
              THEN /\ fs' = sv.fs
                   /\ status_file' = sv.status_file
                   /\ save_failed' = sv.save_failed
                   /\ faultsLeft' = IF faults = NoFaults THEN faultsLeft ELSE faultsLeft - 1
              ELSE /\ faults = NoFaults
                   /\ UNCHANGED <<fs, status_file, save_failed, faultsLeft>>
           /\ cycle' = IF done THEN NoCycle
                       ELSE [cycle EXCEPT !.count = IF r.ok THEN @ + 1 ELSE @]
           /\ queue' = IF run.queued THEN queue \cup {IdStr[nextId]} ELSE queue
           /\ nextId' = IF run.queued THEN nextId + 1 ELSE nextId
           /\ idx' = IF done THEN 1 ELSE idx + 1
           /\ batch' = IF done THEN <<>> ELSE batch
           /\ pc' = IF done THEN "idle" ELSE "submitting"
    /\ UNCHANGED <<max_jobs, reserve_slots, files>>
    /\ UNCHANGED <<wrVars, loaded, toolVars>>

SubmitNext ==
    /\ nextId <= Len(IdStr)
    /\ \E run \in Runs(IdStr[nextId]), faults \in FaultChoices : SubmitNextWith(run, faults)

\* a file appears under d12_dir
AddFile ==
    /\ \E f \in FileUniverse \ files : files' = files \cup {f}
    /\ UNCHANGED <<job_status, status_file, save_failed, max_jobs, reserve_slots,
                   queue, nextId, fs, pc, batch, idx, cycle, faultsLeft>>
    /\ UNCHANGED <<wrVars, loaded, toolVars>>

\* a file is removed from d12_dir
RemoveFile ==
    /\ \E f \in files : files' = files \ {f}
    /\ UNCHANGED <<job_status, status_file, save_failed, max_jobs, reserve_slots,
                   queue, nextId, fs, pc, batch, idx, cycle, faultsLeft>>
    /\ UNCHANGED <<wrVars, loaded, toolVars>>

\* a queued job ends and leaves the scheduler's list
JobEnds ==
    /\ \E id \in queue : queue' = queue \ {id}
    /\ UNCHANGED <<job_status, status_file, save_failed, max_jobs, reserve_slots,
                   files, nextId, fs, pc, batch, idx, cycle, faultsLeft>>
    /\ UNCHANGED <<wrVars, loaded, toolVars>>

Next == PrintStatus \/ ProcessQueueBegin \/ SubmitNext \/ AddFile \/ RemoveFile \/ JobEnds

Spec == Init /\ [][Next]_vars

\* the same manager on storage that can fail under MaxFaults of its saves
FaultyInit ==
    /\ MgrInit
    /\ EmptyStore
    /\ NoTool
    /\ files = {}
    /\ faultsLeft = MaxFaults

SpecFaulty == FaultyInit /\ [][Next]_vars

\* A job directory that already holds MaxQueued decks and does not change:
\* enough pending jobs for the capacity policy to cut the batch
CapacityInit ==
    /\ MgrInit
    /\ EmptyStore
    /\ NoTool
    /\ files = {<<Root, n, "d12">> : n \in 1..MaxQueued}
    /\ faultsLeft = 0

CapacityNext == PrintStatus \/ ProcessQueueBegin \/ SubmitNext \/ JobEnds

SpecCapacity == CapacityInit /\ [][CapacityNext]_vars

----------------------------------------------------------------------------
(* _try_save_status step by step: one or two manager processes saving to  *)
(* the configured status path                                              *)

Writers == DOMAIN wpc

\* the documents the processes save: statuses the manager can hold
SaveDocs == {[DefaultStatus EXCEPT !.pending = <<n>>] : n \in Names}

\* prev: the file at the status path when the save began; res: how the
\* save ended
NoSave == [prev |-> Absent, res |-> "none"]

\* the descriptors that referred to the file named from now refer to to
Relink(fd, from, to) == [q \in DOMAIN fd |-> IF fd[q] = from THEN to ELSE fd[q]]

\* another process is inside _try_save_status
OthersSaving(p) == \E q \in Writers \ {p} : wpc[q] # "idle"

\* p enters _try_save_status to save doc
StartSave(p, doc) ==
    /\ wpc[p] = "idle"
    /\ wdoc' = [wdoc EXCEPT ![p] = doc]
    /\ wlog' = [wlog EXCEPT ![p] = [prev |-> fs[Cfg], res |-> "none"]]
    /\ overlap' = (overlap \/ OthersSaving(p))

\* with open(temp_file, 'w') as f: the temp file is created or truncated
OpenTempBy(p, doc) ==
    /\ StartSave(p, doc)
    /\ fs' = FsOpenW(fs, TempOf(Cfg))
    /\ wfd' = [wfd EXCEPT ![p] = TempOf(Cfg)]
    /\ woff' = [woff EXCEPT ![p] = 0]
    /\ wpc' = [wpc EXCEPT ![p] = "write"]
    /\ UNCHANGED <<mgrVars, loaded, toolVars>>

OpenTemp == \E p \in Writers, doc \in SaveDocs : OpenTempBy(p, doc)

\* open(temp_file, 'w') raises IOError/OSError
OpenFailsBy(p, doc) ==
    /\ StartSave(p, doc)
    /\ wpc' = [wpc EXCEPT ![p] = "except"]
    /\ UNCHANGED <<fs, wfd, woff, mgrVars, loaded, toolVars>>

OpenFails == \E p \in Writers, doc \in SaveDocs : OpenFailsBy(p, doc)

\* the move placed inside the with block: the file is renamed once the
\* first chunk has been flushed, the rest still buffered
WriteChunkBy_MoveInsideWith(p) ==
    /\ wpc[p] = "write"
    /\ fs' = IF wfd[p] \in AllPaths
             THEN FsWriteAt(fs, wfd[p], woff[p], Serialize(wdoc[p])[woff[p] + 1])
             ELSE fs
    /\ wpc' = [wpc EXCEPT ![p] = "move"]
    /\ wfd' = [wfd EXCEPT ![p] = "closed"]
    /\ woff' = [woff EXCEPT ![p] = 0]
    /\ UNCHANGED <<wdoc, wlog, overlap, mgrVars, loaded, toolVars>>

\* json.dump: the next chunk reaches the file the descriptor refers to; the
\* with block closes the descriptor after the last one
WriteChunkBy(p) ==
    /\ wpc[p] = "write"
    /\ fs' = IF wfd[p] \in AllPaths
             THEN FsWriteAt(fs, wfd[p], woff[p], Serialize(wdoc[p])[woff[p] + 1])
             ELSE fs
    /\ IF woff[p] + 1 = Chunks
       THEN /\ wpc' = [wpc EXCEPT ![p] = "move"]
            /\ wfd' = [wfd EXCEPT ![p] = "closed"]
            /\ woff' = [woff EXCEPT ![p] = 0]
       ELSE /\ woff' = [woff EXCEPT ![p] = @ + 1]
            /\ UNCHANGED <<wpc, wfd>>
    /\ UNCHANGED <<wdoc, wlog, overlap, mgrVars, loaded, toolVars>>

WriteChunk == \E p \in Writers : WriteChunkBy(p)

\* a write raises IOError/OSError: the with block closes the descriptor
WriteFailsBy(p) ==
    /\ wpc[p] = "write"
    /\ wpc' = [wpc EXCEPT ![p] = "except"]
    /\ wfd' = [wfd EXCEPT ![p] = "closed"]
    /\ woff' = [woff EXCEPT ![p] = 0]
    /\ UNCHANGED <<fs, wdoc, wlog, overlap, mgrVars, loaded, toolVars>>

WriteFails == \E p \in Writers : WriteFailsBy(p)

\* shutil.move(temp_file, filepath): os.rename within one directory; it
\* raises FileNotFoundError when the temp file is gone
MoveBy(p) ==
    /\ wpc[p] = "move"
    /\ IF fs[TempOf(Cfg)].exists
       THEN /\ fs' = FsRename(fs, TempOf(Cfg), Cfg)
            /\ wfd' = IF TempOf(Cfg) = Cfg THEN wfd
                      ELSE Relink(Relink(wfd, Cfg, "orphan"), TempOf(Cfg), Cfg)
            /\ wpc' = [wpc EXCEPT ![p] = "idle"]
            /\ wlog' = [wlog EXCEPT ![p].res = "saved"]
       ELSE /\ wpc' = [wpc EXCEPT ![p] = "except"]
            /\ wlog' = [wlog EXCEPT ![p].res = "lost"]
            /\ UNCHANGED <<fs, wfd>>
    /\ UNCHANGED <<wdoc, woff, overlap, mgrVars, loaded, toolVars>>

Move == \E p \in Writers : MoveBy(p)

\* shutil.move raises another OSError
MoveFailsBy(p) ==
    /\ wpc[p] = "move"
    /\ wpc' = [wpc EXCEPT ![p] = "except"]
    /\ UNCHANGED <<fs, wdoc, wfd, woff, wlog, overlap, mgrVars, loaded, toolVars>>

MoveFails == \E p \in Writers : MoveFailsBy(p)

\* except (IOError, OSError): remove the temp file if it exists, return False
ExceptBy(p) ==
    /\ wpc[p] = "except"
    /\ fs' = CleanupTemp(fs, TempOf(Cfg))
    /\ wfd' = IF fs[TempOf(Cfg)].exists THEN Relink(wfd, TempOf(Cfg), "orphan") ELSE wfd
    /\ wpc' = [wpc EXCEPT ![p] = "idle"]
    /\ wlog' = [wlog EXCEPT ![p].res = IF @ = "lost" THEN "lost" ELSE "failed"]
    /\ UNCHANGED <<wdoc, woff, overlap, mgrVars, loaded, toolVars>>

Except == \E p \in Writers : ExceptBy(p)

\* the process is killed inside _try_save_status; a later run of the
\* manager takes its place
CrashBy(p) ==
    /\ wpc[p] # "idle"
    /\ wpc' = [wpc EXCEPT ![p] = "idle"]
    /\ wfd' = [wfd EXCEPT ![p] = "closed"]
    /\ woff' = [woff EXCEPT ![p] = 0]
    /\ wlog' = [wlog EXCEPT ![p].res = IF wpc[p] = "move" THEN "crashed before rename"
                                       ELSE "crashed"]
    /\ UNCHANGED <<fs, wdoc, overlap, mgrVars, loaded, toolVars>>

Crash == \E p \in Writers : CrashBy(p)

\* the status files a previous run can have left at the configured path
PreviousFiles ==
    {Absent} \cup {[Absent EXCEPT !.exists = TRUE, !.data = Serialize(d)] : d \in SaveDocs}

\* the processes W are about to save; the manager state itself is at rest
SaveInit(W) ==
    /\ MgrInit
    /\ reserve_slots = 0
    /\ files = {}
    /\ faultsLeft = 0
    /\ \E prev \in PreviousFiles : fs = [q \in AllPaths |-> IF q = Cfg THEN prev ELSE Absent]
    /\ wpc = [q \in W |-> "idle"]
    /\ wdoc = [q \in W |-> DefaultStatus]
    /\ wfd = [q \in W |-> "closed"]
    /\ woff = [q \in W |-> 0]
    /\ wlog = [q \in W |-> NoSave]
    /\ overlap = FALSE
    /\ loaded = NoLoad
    /\ NoTool

SaveNext ==
    \/ OpenTemp \/ OpenFails \/ WriteChunk \/ WriteFails
    \/ Move \/ MoveFails \/ Except \/ Crash

\* a single manager process saving
SpecSave == SaveInit({1}) /\ [][SaveNext]_vars

\* two manager processes saving to the same status path
SpecConc == SaveInit({1, 2}) /\ [][SaveNext]_vars

----------------------------------------------------------------------------
(* load_status: the manager being constructed over the files a previous   *)
(* run, or anything else, has left at the three locations                  *)

\* the order load_status tries the locations in
LoadOrder(sf) == <<sf, Home, Tmp>>

RECURSIVE LoadFrom(_, _, _)
\* the for loop of load_status from the i-th location on: the first
\* existing file that loads is returned; JSONDecodeError, IOError and
\* OSError are caught and the loop goes on; any other exception leaves
\* load_status
LoadFrom(f, paths, i) ==
    IF i > Len(paths)
    THEN [raised |-> FALSE, data |-> DefaultStatus, from |-> paths[1]]
    ELSE LET r == JsonLoad(f[paths[i]])
         IN  IF ~f[paths[i]].exists THEN LoadFrom(f, paths, i + 1)
             ELSE IF r.exc = "none"
             THEN [raised |-> FALSE, data |-> r.data, from |-> paths[i]]
             ELSE IF r.exc \in {"JSONDecodeError", "OSError"}
             THEN LoadFrom(f, paths, i + 1)
             ELSE [raised |-> TRUE, data |-> DefaultStatus, from |-> paths[1]]

\* __init__: self.job_status = self.load_status(); an exception leaves the
\* constructor and main exits with status 1
LoadStatus ==
    /\ ~loaded.done
    /\ LET r == LoadFrom(fs, LoadOrder(status_file), 1)
       IN  /\ loaded' = [done |-> TRUE, raised |-> r.raised, data |-> r.data,
                         from |-> r.from]
           /\ job_status' = r.data
           /\ status_file' = r.from
    /\ UNCHANGED <<save_failed, max_jobs, reserve_slots, files, queue, nextId, fs,
                   pc, batch, idx, cycle, faultsLeft, wrVars, toolVars>>

\* what can lie at a location: nothing, a complete document, a document cut
\* short, a file that cannot be opened, a file whose bytes are not UTF-8
StoredFiles ==
    {Absent}
    \cup {[Absent EXCEPT !.exists = TRUE, !.data = Serialize(d)] : d \in SaveDocs}
    \cup {[Absent EXCEPT !.exists = TRUE,
                         !.data = SubSeq(Serialize(d), 1, Chunks - 1)] : d \in SaveDocs}
    \cup {[Absent EXCEPT !.exists = TRUE, !.readable = FALSE,
                         !.data = Serialize(d)] : d \in SaveDocs}
    \cup {[Absent EXCEPT !.exists = TRUE, !.utf8 = FALSE,
                         !.data = Serialize(d)] : d \in SaveDocs}

LoadInit ==
    /\ MgrInit
    /\ reserve_slots = 0
    /\ files = {}
    /\ faultsLeft = 0
    /\ \E c, h, t \in StoredFiles :
           fs = [q \in AllPaths |-> CASE q = Cfg -> c [] q = Home -> h
                                      [] q = Tmp -> t [] OTHER -> Absent]
    /\ wpc = <<>> /\ wdoc = <<>> /\ wfd = <<>> /\ woff = <<>> /\ wlog = <<>>
    /\ overlap = FALSE
    /\ loaded = NoLoad
    /\ NoTool

LoadNext == LoadStatus

\* the manager being constructed
SpecLoad == LoadInit /\ [][LoadNext]_vars

----------------------------------------------------------------------------
(* Properties of the job bookkeeping *)

Count(s, x) == Cardinality({i \in 1..Len(s) : s[i] = x})

\* a step in which the manager ran update_job_status and obtained running
\* as the running-job list
UpdateStepWith(running) ==
    \/ \E d12 \in Listings(files), faults \in FaultChoices :
           PrintStatusWith(d12, running, faults)
    \/ \E d12 \in Listings(files), faults \in FaultChoices,
          ms \in MaxSubmits, current \in CurrentReads(queue) :
           ProcessQueueBeginWith(d12, running, faults, ms, current)

UpdateStep == \E running \in RunningReads(queue) : UpdateStepWith(running)

\* C1: starting from an empty status store, after any sequence of manager
\* operations every known job name is in exactly one of pending, submitted,
\* completed: the three are pairwise disjoint, and pending and completed
\* (and the keys of submitted) hold no name twice.
C1_Partition ==
    /\ PendingNames(job_status) \cap SubmittedNames(job_status) = {}
    /\ PendingNames(job_status) \cap CompletedNames(job_status) = {}
    /\ SubmittedNames(job_status) \cap CompletedNames(job_status) = {}
    /\ NoDup(job_status.pending)
    /\ NoDup(job_status.completed)
    /\ NoDup([i \in 1..Len(job_status.submitted) |-> job_status.submitted[i].name])

\* one job has completed, another is submitted: all operations have acted
C1_Witness ==
    /\ job_status.completed # <<>>
    /\ job_status.submitted # <<>>
    /\ \E f \in files : f[3] = "d12" /\ InSeq(f[2], job_status.completed)

\* C2: after update_job_status every .d12 file found under the job
\* directory whose job name was in none of the three buckets before the
\* call is in pending, and a name that was already in a bucket is not added
\* to pending.
C2_ScanAddsUnknown ==
    [][UpdateStep =>
        /\ \A f \in files :
               (f[3] = "d12" /\ ~KnownJob(job_status, f[2])) => InSeq(f[2], job_status'.pending)
        /\ \A n \in Stems(files) \cup PendingNames(job_status') :
               KnownJob(job_status, n) =>
                   Count(job_status'.pending, n) = Count(job_status.pending, n)]_vars

\* a deck only present in the subdirectory is pending while the deck of a
\* completed job is still present
C2_Witness ==
    /\ <<Sub, 1, "d12">> \in files /\ <<Root, 1, "d12">> \notin files
    /\ InSeq(1, job_status.pending)
    /\ \E f \in files : f[3] = "d12" /\ InSeq(f[2], job_status.completed)

\* C3: the scan is idempotent: once update_job_status has scanned the
\* directory, scanning the unchanged directory again leaves pending (and
\* the whole status) as it is, with no name twice, also when two decks in
\* different subdirectories share a job name.
C3_ScanIdempotent ==
    [][UpdateStep =>
        /\ NoDup(job_status'.pending)
        /\ \A d12 \in Listings(files) : ScanNew(job_status', d12) = job_status']_vars

\* both decks of job 1 (root and subdirectory) exist and the job is pending
C3_Witness ==
    /\ <<Sub, 1, "d12">> \in files /\ <<Root, 1, "d12">> \in files
    /\ Count(job_status.pending, 1) = 1

\* the submission command succeeded: exit status 0 and the marker in stdout
Succeeded(run) ==
    /\ run.status = "ok"
    /\ \E i \in 1..Len(run.stdout) :
           /\ i + 2 <= Len(run.stdout)
           /\ run.stdout[i] = "Submitted"
           /\ run.stdout[i + 1] = "batch"
           /\ run.stdout[i + 2] = "job"

\* C4: for each pending job attempted in a process_queue cycle: on success
\* the job leaves pending and is recorded in submitted under the last token
\* of stdout; on any failure the job stays in pending and the status is
\* unchanged; either way the remaining jobs of the batch are still attempted.
C4_SubmitOutcome ==
    [][\A run \in Runs(IdStr[nextId]), faults \in FaultChoices :
        SubmitNextWith(run, faults) =>
            LET job == batch[idx].name
            IN  /\ InSeq(job, job_status.pending)
                /\ IF Succeeded(run)
                   THEN /\ ~InSeq(job, job_status'.pending)
                        /\ \E i \in 1..Len(job_status'.submitted) :
                               job_status'.submitted[i] =
                                   [name |-> job, id |-> run.stdout[Len(run.stdout)]]
                        /\ job_status'.completed = job_status.completed
                        /\ \A n \in PendingNames(job_status) \ {job} :
                               InSeq(n, job_status'.pending)
                   ELSE /\ job_status' = job_status
                /\ idx < Len(batch) =>
                       (pc' = "submitting" /\ idx' = idx + 1 /\ batch' = batch)]_vars

\* the first job of the batch failed and stays pending, the second is next
C4_Witness ==
    /\ pc = "submitting"
    /\ idx = 2
    /\ InSeq(batch[1].name, job_status.pending)
    /\ cycle.count = 0

\* C5: when update_job_status reconciles a non-empty submitted map against
\* the scheduler's live job-ID list, every submitted job whose ID is absent
\* from the list leaves submitted and is in completed exactly once, every
\* one whose ID is listed stays in submitted, and reconciling again against
\* the same list changes nothing.
C5_Reconcile ==
    [][(job_status.submitted # <<>> /\ UpdateStepWith(queue)) =>
        /\ \A i \in 1..Len(job_status.submitted) :
               LET it == job_status.submitted[i]
               IN  IF it.id \in queue
                   THEN InSeq(it, job_status'.submitted)
                   ELSE /\ it.name \notin SubmittedNames(job_status')
                        /\ Count(job_status'.completed, it.name) = 1
        /\ Reconcile(job_status', "ok", queue) = job_status']_vars

\* one job was moved to completed while another, still queued, stayed
C5_Witness ==
    /\ job_status.completed # <<>>
    /\ \E i \in 1..Len(job_status.submitted) : job_status.submitted[i].id \in queue
    /\ pc = "idle"

\* C6: job status only moves forward: a completed job stays completed and
\* never re-enters pending or submitted, and a submitted job never returns
\* to pending, also when its deck is still present and rescanned.
C6_ForwardOnly ==
    [][\A n \in Stems(files) \cup PendingNames(job_status) \cup SubmittedNames(job_status)
                \cup CompletedNames(job_status) :
        /\ InSeq(n, job_status.completed) =>
               /\ InSeq(n, job_status'.completed)
               /\ ~InSeq(n, job_status'.pending)
               /\ n \notin SubmittedNames(job_status')
        /\ n \in SubmittedNames(job_status) => ~InSeq(n, job_status'.pending)]_vars

\* a completed and a submitted job whose decks are both still present,
\* while a cycle is running
C6_Witness ==
    /\ \E f \in files : f[3] = "d12" /\ InSeq(f[2], job_status.completed)
    /\ \E f \in files : f[3] = "d12" /\ f[2] \in SubmittedNames(job_status)

\* C7: capacity policy of process_queue, live being the job count read at
\* the start of the cycle: when max(0, max_jobs - live) does not exceed
\* reserve_slots no job is attempted, and otherwise the attempts of the
\* cycle number at most max(0, max_jobs - live) - reserve_slots.
C7_Capacity ==
    pc = "submitting" =>
        LET raw == Max(0, max_jobs - cycle.live)
        IN  /\ raw > reserve_slots
            /\ Len(batch) <= raw - reserve_slots

----------------------------------------------------------------------------
(* Properties of the status persistence *)

\* the status path holds no file or the complete text of one document
PathComplete == fs[Cfg].exists => Complete(fs[Cfg].data)

\* p has entered _try_save_status at least once
HasSaved(p) == wpc[p] # "idle" \/ wlog[p].res # "none"

\* C8: with a single writer, a crash after the temp file has been written
\* and before the rename leaves the previous complete document at the
\* status path, and at every instant the status path holds either the
\* previous or the new complete document, never a partial one.
C8_AtomicSave ==
    \A p \in Writers :
        HasSaved(p) =>
            /\ PathComplete
            /\ \/ fs[Cfg] = wlog[p].prev
               \/ fs[Cfg].exists /\ fs[Cfg].data = Serialize(wdoc[p])
            /\ wlog[p].res \in {"crashed", "crashed before rename", "failed"}
                   => fs[Cfg] = wlog[p].prev
            /\ wpc[p] = "idle" /\ wlog[p].res = "saved"
                   => fs[Cfg].exists /\ fs[Cfg].data = Serialize(wdoc[p])

\* the process has crashed with the whole new document in the temp file,
\* the previous, different document still at the status path
C8_Witness ==
    /\ Writers = {1}
    /\ wlog[1].res = "crashed before rename"
    /\ wlog[1].prev.exists
    /\ fs[TempOf(Cfg)].exists
    /\ fs[TempOf(Cfg)].data = Serialize(wdoc[1])
    /\ fs[Cfg].data # Serialize(wdoc[1])

\* the location i of the load order holds a file that opens and parses
Parses(file) == file.exists /\ file.readable /\ file.utf8 /\ Complete(file.data)

\* C9: load_status returns the content of the first of the configured path,
\* the home directory and the temp directory that exists and parses,
\* rebinding status_file to it; the empty default only when none does; and
\* it never raises on a missing or corrupt file.
C9_LoadStatus ==
    loaded.done =>
        LET order == LoadOrder(Cfg)
            good == {i \in 1..Len(order) : Parses(fs[order[i]])}
            first == CHOOSE i \in good : \A j \in good : i <= j
        IN  /\ ~loaded.raised
            /\ IF good = {}
               THEN job_status = DefaultStatus
               ELSE /\ job_status = fs[order[first]].data[1].doc
                    /\ status_file = order[first]

\* C10 as stated: with two processes saving to the same status path, the
\* path holds at every instant one complete document written by one of
\* them, and neither save fails because of the other.
C10_Concurrent ==
    /\ PathComplete
    /\ \A p \in Writers : wlog[p].res # "lost"

\* C10 amended: as long as the saves of the two processes have not
\* overlapped in time, the status path holds at every instant one complete
\* document, the file once there stays there, a process about to rename
\* finds its own whole document in the temp file, and no save has failed
\* for want of its temp file.
C10_Sequential ==
    ~overlap =>
        /\ PathComplete
        /\ \A p \in Writers :
               /\ wlog[p].res # "lost"
               /\ wlog[p].prev.exists => fs[Cfg].exists
               /\ wpc[p] = "move" => /\ fs[TempOf(Cfg)].exists
                                     /\ fs[TempOf(Cfg)].data = Serialize(wdoc[p])

\* both processes have saved, one after the other, different documents:
\* the second found the first's document and replaced it
C10_Witness ==
    /\ Writers = {1, 2}
    /\ ~overlap
    /\ wlog[1].res = "saved" /\ wlog[2].res = "saved"
    /\ wdoc[1] # wdoc[2]
    /\ wlog[2].prev.exists /\ wlog[2].prev.data = Serialize(wdoc[1])
    /\ fs[Cfg].data = Serialize(wdoc[2])

----------------------------------------------------------------------------
(* The log scrapers: grab_properties.py and CBM_VBM.py                    *)

\* no queue manager is running while another script of the toolbox runs
QueueAtRest ==
    /\ MgrInit
    /\ EmptyStore
    /\ reserve_slots = 0
    /\ files = {}
    /\ faultsLeft = 0

\* band gaps (eV) a log reports: a semiconductor's and an insulator's
GapValues == {3, 12}

\* a line of a log, by the marker the scrapers match and the number they
\* take from it (float(line.split()[-2]))
Line(kind, val) == [kind |-> kind, val |-> val]

GapLines == {Line(k, v) : k \in {"INDGAP", "DIRGAP"}, v \in GapValues}

\* the lines of a slab or bulk log that grab_properties tells apart: the
\* conducting-state marker, the gap reports, the lattice-parameter block,
\* a line containing " PROCESS", any other line
GrabLines == {Line(k, 0) : k \in {"COND", "LAT", "PROCESS", "OTHER"}} \cup GapLines

\* the locals grab_properties sets before the slab loop of a material; the
\* cell and angle variables are bound by an earlier material or not at all
GrabSlabLocals(m, cell, ang) ==
    [script |-> "grab_properties", pc |-> "slab", m |-> m, lines |-> 0,
     Ebg_slb |-> 999999, GAPTYPE_slb |-> "Null", state_slb |-> "Null",
     Ebg_blk |-> 9999999, GAPTYPE_blk |-> "Null", state_blk |-> "Null",
     cell |-> cell, ang |-> ang, seen_slb |-> {}, seen_blk |-> {}]

\* which of the conducting marker and a gap report a log has shown so far
Seen(seen, line) ==
    seen \cup (IF line.kind = "COND" THEN {"COND"}
               ELSE IF line.kind \in {"INDGAP", "DIRGAP"} THEN {"GAP"} ELSE {})

GapType(line) == IF line.kind = "INDGAP" THEN "INDIRECT" ELSE "DIRECT"

\* state from the gap: SEMI strictly between 0 and 9, INSU strictly
\* between 9 and 10000, otherwise unchanged
StateOf(Ebg, state) ==
    LET s1 == IF Ebg < 9 /\ Ebg > 0 THEN "SEMI" ELSE state
    IN  IF Ebg > 9 /\ Ebg < 10000 THEN "INSU" ELSE s1

\* one pass of the slab loop over a line
GrabSlabStep(s, line) ==
    IF line.kind = "PROCESS" THEN s
    ELSE LET a == IF line.kind = "LAT" THEN [s EXCEPT !.cell = TRUE] ELSE s
             b == IF line.kind = "COND"
                  THEN [a EXCEPT !.state_slb = "COND", !.Ebg_slb = 0] ELSE a
             c == IF line.kind \in {"INDGAP", "DIRGAP"}
                  THEN [b EXCEPT !.Ebg_slb = line.val, !.GAPTYPE_slb = GapType(line)]
                  ELSE b
         IN  [c EXCEPT !.state_slb = StateOf(c.Ebg_slb, c.state_slb)]

\* one pass of the bulk loop over a line
GrabBulkStep(s, line) ==
    IF line.kind = "PROCESS" THEN s
    ELSE LET a == IF line.kind = "LAT" THEN [s EXCEPT !.cell = TRUE, !.ang = TRUE] ELSE s
             b == IF line.kind = "COND"
                  THEN [a EXCEPT !.state_blk = "COND", !.Ebg_blk = 0] ELSE a
         IN  IF line.kind \in {"INDGAP", "DIRGAP"}
             THEN [b EXCEPT !.Ebg_blk = line.val, !.GAPTYPE_blk = GapType(line)]
             ELSE b

\* the header row each scraper writes before its loop
Header == [material |-> "Material"]

\* the row grab_properties writes for a material (the fields the model follows)
GrabRow(s) ==
    [material |-> s.m, Ebg_slb |-> s.Ebg_slb, GAPTYPE_slb |-> s.GAPTYPE_slb,
     Ebg_blk |-> s.Ebg_blk, GAPTYPE_blk |-> s.GAPTYPE_blk,
     state_slb |-> s.state_slb, state_blk |-> s.state_blk]

\* for path in pathlist: the next *_slab.out; a material without a bulk
\* log is passed over
GrabNext ==
    /\ scr.script = "grab_properties" /\ scr.pc = "next"
    /\ IF scr.m > input.n THEN scr' = [scr EXCEPT !.pc = "done"]
       ELSE IF input.bulk[scr.m]
       THEN scr' = GrabSlabLocals(scr.m, scr.cell, scr.ang)
       ELSE scr' = [scr EXCEPT !.m = @ + 1]
    /\ UNCHANGED <<input, output, queueVars>>

\* the slab loop reads a line
GrabSlabLine ==
    /\ scr.script = "grab_properties" /\ scr.pc = "slab" /\ scr.lines < MaxLines
    /\ \E line \in GrabLines :
           scr' = [GrabSlabStep(scr, line) EXCEPT !.lines = scr.lines + 1,
                                                  !.seen_slb = Seen(scr.seen_slb, line)]
    /\ UNCHANGED <<input, output, queueVars>>

\* the slab log ends: the bulk locals are set
GrabSlabEnd ==
    /\ scr.script = "grab_properties" /\ scr.pc = "slab"
    /\ scr' = [scr EXCEPT !.pc = "bulk", !.lines = 0]
    /\ UNCHANGED <<input, output, queueVars>>

\* the bulk loop reads a line
GrabBulkLine ==
    /\ scr.script = "grab_properties" /\ scr.pc = "bulk" /\ scr.lines < MaxLines
    /\ \E line \in GrabLines :
           scr' = [GrabBulkStep(scr, line) EXCEPT !.lines = scr.lines + 1,
                                                  !.seen_blk = Seen(scr.seen_blk, line)]
    /\ UNCHANGED <<input, output, queueVars>>

\* the bulk log ends: the state of the bulk, then `if Ebg_blk >100: continue`
\* goes on to the next material without a row; space and dens need the
\* cell and the angles, a NameError when no lattice block bound them
GrabBulkEnd ==
    /\ scr.script = "grab_properties" /\ scr.pc = "bulk"
    /\ LET s == [scr EXCEPT !.state_blk = StateOf(scr.Ebg_blk, scr.state_blk)]
       IN  scr' = IF s.Ebg_blk > 100 THEN [s EXCEPT !.pc = "next", !.m = @ + 1]
                  ELSE IF ~(s.cell /\ s.ang) THEN [s EXCEPT !.pc = "raised"]
                  ELSE [s EXCEPT !.pc = "row"]
    /\ UNCHANGED <<input, output, queueVars>>

\* writer.writerow(table)
GrabWriteRow ==
    /\ scr.script = "grab_properties" /\ scr.pc = "row"
    /\ output' = Append(output, GrabRow(scr))
    /\ scr' = [scr EXCEPT !.pc = "next", !.m = @ + 1]
    /\ UNCHANGED <<input, queueVars>>

\* grab_properties over a directory with n slab logs, some with a bulk log
GrabInit ==
    /\ \E n \in 1..MaxMaterials : \E bulk \in [1..n -> BOOLEAN] :
           input = [n |-> n, bulk |-> bulk]
    /\ scr = [GrabSlabLocals(1, FALSE, FALSE) EXCEPT !.pc = "next"]
    /\ output = <<Header>>

\* the lines of a log that CBM_VBM tells apart: the spin-channel headers,
\* the conducting-state marker, the gap reports, the top of the valence
\* bands (in hartree), any other line
VbmValues == {-2, -1}

CbmLines ==
    {Line(k, 0) : k \in {"ALPHA", "BETA", "COND", "OTHER"}} \cup GapLines
    \cup {Line("VBM", v) : v \in VbmValues}

\* an energy h * HeV + e in eV, HeV = 27.2114 left symbolic
EV(h, e) == [hartree |-> h, eV |-> e]

\* the names CBM_VBM binds only inside its second loop
Totals == {"total_VBM", "total_CBM", "total_type"}

\* the locals CBM_VBM sets before the loops of a file; prev carries what
\* an earlier file left bound
CbmLocals(m, prev) ==
    [script |-> "CBM_VBM", pc |-> "scan", m |-> m, log |-> <<>>, i |-> 0,
     Ebg_slb_alpha |-> 999999, Ebg_slb_beta |-> 999999,
     GAPTYPE_slb_alpha |-> "Null", GAPTYPE_slb_beta |-> "Null",
     VBM_alpha |-> 99999999, VBM_beta |-> 99999999,
     VBM_alpha_eV |-> EV(0, 99999999), CBM_alpha_eV |-> EV(0, 99999999),
     VBM_beta_eV |-> EV(0, 99999999), CBM_beta_eV |-> EV(0, 99999999),
     alpha_line |-> 99999999, beta_line |-> 99999999,
     alpha_counter |-> prev.alpha_counter, beta_counter |-> prev.beta_counter,
     bound |-> prev.bound, total_VBM |-> prev.total_VBM,
     total_CBM |-> prev.total_CBM, total_type |-> prev.total_type,
     seen |-> {}]

\* nothing bound yet: the first file of a run
CbmFresh ==
    [alpha_counter |-> 0, beta_counter |-> 0, bound |-> {},
     total_VBM |-> EV(0, 0), total_CBM |-> EV(0, 0), total_type |-> "Null"]

\* first loop: the last ALPHA and BETA header lines
CbmScanStep(s, line, i) ==
    LET a == IF line.kind = "ALPHA"
             THEN [s EXCEPT !.alpha_line = i, !.alpha_counter = 0] ELSE s
    IN  IF line.kind = "BETA"
        THEN [a EXCEPT !.beta_line = i, !.beta_counter = 0] ELSE a

\* the two `if line.startswith(VBM)` of a spin channel: the new counter
\* and top of the valence bands
VbmUpdate(counter, vbm, line) ==
    LET c1 == IF line.kind = "VBM" /\ counter = 0 THEN counter + 1 ELSE counter
        v1 == IF line.kind = "VBM" /\ counter = 0 THEN line.val ELSE vbm
    IN  IF line.kind = "VBM" /\ c1 > 0 /\ v1 < line.val
        THEN [counter |-> c1 + 1, vbm |-> line.val]
        ELSE [counter |-> c1, vbm |-> v1]

\* second loop, lines 69-79: the conducting-state marker
CbmCond(s, line) ==
    IF line.kind = "COND"
    THEN [s EXCEPT !.Ebg_slb_alpha = 0, !.Ebg_slb_beta = 0,
                   !.GAPTYPE_slb_alpha = "COND", !.GAPTYPE_slb_beta = "COND",
                   !.VBM_alpha_eV = EV(0, 0), !.VBM_beta_eV = EV(0, 0),
                   !.CBM_alpha_eV = EV(0, 0), !.CBM_beta_eV = EV(0, 0),
                   !.total_VBM = EV(0, 9999999), !.total_CBM = EV(0, 9999999),
                   !.bound = @ \cup {"total_VBM", "total_CBM"}]
    ELSE s

\* second loop, lines 81-95: a line between the ALPHA and the BETA header
CbmAlpha(s, line, i) ==
    IF i > s.alpha_line /\ i < s.beta_line
    THEN LET g == IF line.kind \in {"INDGAP", "DIRGAP"}
                  THEN [s EXCEPT !.Ebg_slb_alpha = line.val,
                                 !.GAPTYPE_slb_alpha = GapType(line)]
                  ELSE s
             u == VbmUpdate(g.alpha_counter, g.VBM_alpha, line)
         IN  [g EXCEPT !.alpha_counter = u.counter, !.VBM_alpha = u.vbm,
                       !.VBM_alpha_eV = EV(u.vbm, 0),
                       !.CBM_alpha_eV = EV(u.vbm, g.Ebg_slb_alpha)]
    ELSE s

\* second loop, lines 97-111: a line after the BETA header
CbmBeta(s, line, i) ==
    IF i > s.beta_line
    THEN LET g == IF line.kind \in {"INDGAP", "DIRGAP"}
                  THEN [s EXCEPT !.Ebg_slb_beta = line.val,
                                 !.GAPTYPE_slb_beta = GapType(line)]
                  ELSE s
             u == VbmUpdate(g.beta_counter, g.VBM_beta, line)
         IN  [g EXCEPT !.beta_counter = u.counter, !.VBM_beta = u.vbm,
                       !.VBM_beta_eV = EV(u.vbm, 0),
                       !.CBM_beta_eV = EV(u.vbm, g.Ebg_slb_beta)]
    ELSE s

\* second loop, lines 115-133: the smaller of the two gaps, alpha on a tie;
\* skipped while either gap is above 100
CbmTotal(s) ==
    IF s.Ebg_slb_alpha > 100 \/ s.Ebg_slb_beta > 100 THEN s
    ELSE IF s.Ebg_slb_alpha <= s.Ebg_slb_beta
    THEN [s EXCEPT !.total_VBM = s.VBM_alpha_eV, !.total_CBM = s.CBM_alpha_eV,
                   !.total_type = s.GAPTYPE_slb_alpha, !.bound = Totals]
    ELSE [s EXCEPT !.total_VBM = s.VBM_beta_eV, !.total_CBM = s.CBM_beta_eV,
                   !.total_type = s.GAPTYPE_slb_beta, !.bound = Totals]

\* one pass of the second loop over line i
CbmReadStep(s, line, i) == CbmTotal(CbmBeta(CbmAlpha(CbmCond(s, line), line, i), line, i))

\* the row CBM_VBM writes for a file
CbmRow(s) ==
    [material |-> s.m, Ebg_slb_alpha |-> s.Ebg_slb_alpha,
     GAPTYPE_slb_alpha |-> s.GAPTYPE_slb_alpha, Ebg_slb_beta |-> s.Ebg_slb_beta,
     GAPTYPE_slb_beta |-> s.GAPTYPE_slb_beta,
     VBM_alpha_eV |-> s.VBM_alpha_eV, CBM_alpha_eV |-> s.CBM_alpha_eV,
     VBM_beta_eV |-> s.VBM_beta_eV, CBM_beta_eV |-> s.CBM_beta_eV,
     total_VBM |-> s.total_VBM, total_CBM |-> s.total_CBM,
     total_type |-> s.total_type]

\* for path in pathlist: the next .out file
CbmNext ==
    /\ scr.script = "CBM_VBM" /\ scr.pc = "next"
    /\ scr' = IF scr.m > input.n THEN [scr EXCEPT !.pc = "done"]
              ELSE CbmLocals(scr.m, scr)
    /\ UNCHANGED <<input, output, queueVars>>

\* the first loop reads a line of the file
CbmScanLine ==
    /\ scr.script = "CBM_VBM" /\ scr.pc = "scan" /\ Len(scr.log) < MaxLines
    /\ \E line \in CbmLines :
           scr' = [CbmScanStep(scr, line, Len(scr.log))
                       EXCEPT !.log = Append(scr.log, line),
                              !.seen = Seen(scr.seen, line)]
    /\ UNCHANGED <<input, output, queueVars>>

\* the file ends: slb.seek(0)
CbmSeek ==
    /\ scr.script = "CBM_VBM" /\ scr.pc = "scan"
    /\ scr' = [scr EXCEPT !.pc = "read", !.i = 0]
    /\ UNCHANGED <<input, output, queueVars>>

\* the second loop reads the line again
CbmReadLine ==
    /\ scr.script = "CBM_VBM" /\ scr.pc = "read" /\ scr.i < Len(scr.log)
    /\ scr' = [CbmReadStep(scr, scr.log[scr.i + 1], scr.i) EXCEPT !.i = scr.i + 1]
    /\ UNCHANGED <<input, output, queueVars>>

\* the second loop ends: table = [...] is a NameError when a total was
\* never bound
CbmReadEnd ==
    /\ scr.script = "CBM_VBM" /\ scr.pc = "read" /\ scr.i = Len(scr.log)
    /\ scr' = [scr EXCEPT !.pc = IF scr.bound = Totals THEN "row" ELSE "raised"]
    /\ UNCHANGED <<input, output, queueVars>>

\* writer.writerow(table)
CbmWriteRow ==
    /\ scr.script = "CBM_VBM" /\ scr.pc = "row"
    /\ output' = Append(output, CbmRow(scr))
    /\ scr' = [scr EXCEPT !.pc = "next", !.m = @ + 1, !.log = <<>>, !.i = 0]
    /\ UNCHANGED <<input, queueVars>>

\* CBM_VBM over a directory with n .out files
CbmInit ==
    /\ \E n \in 1..MaxMaterials : input = [n |-> n]
    /\ scr = [CbmLocals(1, CbmFresh) EXCEPT !.pc = "next"]
    /\ output = <<Header>>

\* a run of one of the two scrapers
ScrapeInit == QueueAtRest /\ (GrabInit \/ CbmInit)

ScrapeNext ==
    \/ GrabNext \/ GrabSlabLine \/ GrabSlabEnd \/ GrabBulkLine \/ GrabBulkEnd
    \/ GrabWriteRow
    \/ CbmNext \/ CbmScanLine \/ CbmSeek \/ CbmReadLine \/ CbmReadEnd \/ CbmWriteRow

SpecScrape == ScrapeInit /\ [][ScrapeNext]_vars

----------------------------------------------------------------------------
(* Properties of the scrapers *)

\* the log has shown both the conducting-state marker and a gap report
BothSeen(seen) == {"COND", "GAP"} \subseteq seen

\* C11: for a log that contains a ' POSSIBLY CONDUCTING STATE' line and a
\* direct or indirect band-gap line, in either order, the row reports gap 0
\* and a conducting state/type: in grab_properties for the slab and for the
\* bulk log, in CBM_VBM for both spin channels and the total.
C11_ConductingWins ==
    /\ scr.script = "grab_properties" /\ scr.pc = "row" =>
           /\ BothSeen(scr.seen_slb) => scr.Ebg_slb = 0 /\ scr.state_slb = "COND"
           /\ BothSeen(scr.seen_blk) => scr.Ebg_blk = 0 /\ scr.state_blk = "COND"
    /\ scr.script = "CBM_VBM" /\ scr.pc = "row" /\ BothSeen(scr.seen) =>
           /\ scr.Ebg_slb_alpha = 0 /\ scr.GAPTYPE_slb_alpha = "COND"
           /\ scr.Ebg_slb_beta = 0 /\ scr.GAPTYPE_slb_beta = "COND"
           /\ scr.total_type = "COND"

\* the materials a run owes a row: for grab_properties those with both a
\* slab and a bulk log, for CBM_VBM every .out file
RowsDue ==
    IF scr.script = "grab_properties" THEN {m \in 1..input.n : input.bulk[m]}
    ELSE 1..input.n

\* C17: each scraper writes, after the fixed header row, exactly one data
\* row per material, whatever the logs contain: the run ends without an
\* exception and its CSV holds the header and one row for each material due.
C17_OneRowPerMaterial ==
    scr.script \in {"grab_properties", "CBM_VBM"} =>
        /\ output[1] = Header
        /\ scr.pc # "raised"
        /\ scr.pc = "done" =>
               /\ Len(output) = 1 + Cardinality(RowsDue)
               /\ \A m \in RowsDue : \E k \in 2..Len(output) : output[k].material = m

----------------------------------------------------------------------------
(* Work-function extraction: getWF.py                                      *)

\* Fermi energies (hartree) a _POTC.out log reports
FermiValues == {-1, 1}

\* potentials (hartree) in the second column of a _POTC.POTC.dat file
PotValues == {-4, -2}

\* the lines of the log: one containing 'FERMI ENERGY', any other
WfLogLines == {Line("FERMI", v) : v \in FermiValues} \cup {Line("OTHER", 0)}

\* the lines of the .dat file: a comment (# or @), a data line z V
WfDatLines == {Line("COMMENT", 0)} \cup {Line("DATA", v) : v \in PotValues}

\* the locals of getWF(material) once both files are known to exist
WfLocals(m) ==
    [script |-> "getWF", pc |-> "log", m |-> m, lines |-> 0,
     EF |-> 0, V |-> <<>>, fermi |-> FALSE, row |-> <<>>]

\* lines 28-39: list_data, every energy h hartree as h * 27.2114 eV
WfRow(s) ==
    LET V0 == s.V[1]
        V1 == s.V[Len(s.V)]
    IN  [material |-> s.m,
         Vtop |-> EV(V0, 0), Vbot |-> EV(V1, 0),
         WF0 |-> EV(V0 - s.EF, 0), WF1 |-> EV(V1 - s.EF, 0),
         WFmax |-> EV(Max(V0 - s.EF, V1 - s.EF), 0),
         WFmin |-> EV(Min(V0 - s.EF, V1 - s.EF), 0),
         Vmax |-> EV(Max(V0, V1), 0), Vmin |-> EV(Min(V0, V1), 0),
         Vavg |-> EV((V0 + V1) \div 2, 0),
         EF_eV |-> EV(s.EF, 0)]

\* for path in pathlist: getWF(material); without the _POTC.out file
\* getWF returns at once
WfNext ==
    /\ scr.script = "getWF" /\ scr.pc = "next"
    /\ scr' = IF scr.m > input.n THEN [scr EXCEPT !.pc = "done"]
              ELSE IF input.log[scr.m] THEN WfLocals(scr.m)
              ELSE [scr EXCEPT !.m = @ + 1]
    /\ UNCHANGED <<input, output, queueVars>>

\* the loop over file5 reads a line: the last 'FERMI ENERGY' line gives EF
WfLogLine ==
    /\ scr.script = "getWF" /\ scr.pc = "log" /\ scr.lines < MaxLines
    /\ \E line \in WfLogLines :
           scr' = IF line.kind = "FERMI"
                  THEN [scr EXCEPT !.EF = line.val, !.fermi = TRUE, !.lines = @ + 1]
                  ELSE [scr EXCEPT !.lines = @ + 1]
    /\ UNCHANGED <<input, output, queueVars>>

WfLogEnd ==
    /\ scr.script = "getWF" /\ scr.pc = "log"
    /\ scr' = [scr EXCEPT !.pc = "dat", !.lines = 0]
    /\ UNCHANGED <<input, output, queueVars>>

\* the loop over file4 reads a line: data lines are appended to V
WfDatLine ==
    /\ scr.script = "getWF" /\ scr.pc = "dat" /\ scr.lines < MaxLines
    /\ \E line \in WfDatLines :
           scr' = IF line.kind = "DATA"
                  THEN [scr EXCEPT !.V = Append(@, line.val), !.lines = @ + 1]
                  ELSE [scr EXCEPT !.lines = @ + 1]
    /\ UNCHANGED <<input, output, queueVars>>

\* lines 28-39: V[0] is an IndexError when the file had no data line
WfDatEnd ==
    /\ scr.script = "getWF" /\ scr.pc = "dat"
    /\ scr' = IF scr.V = <<>> THEN [scr EXCEPT !.pc = "raised"]
              ELSE [scr EXCEPT !.pc = "row", !.row = WfRow(scr)]
    /\ UNCHANGED <<input, output, queueVars>>

\* writer.writerow(list_data), back in the batch loop
WfWriteRow ==
    /\ scr.script = "getWF" /\ scr.pc = "row"
    /\ output' = Append(output, scr.row)
    /\ scr' = [scr EXCEPT !.pc = "next", !.m = @ + 1]
    /\ UNCHANGED <<input, queueVars>>

\* getWF.py over a directory with n _POTC.POTC.dat files, some with a log
WfInit ==
    /\ QueueAtRest
    /\ \E n \in 1..MaxMaterials : \E log \in [1..n -> BOOLEAN] :
           input = [n |-> n, log |-> log]
    /\ scr = [WfLocals(1) EXCEPT !.pc = "next"]
    /\ output = <<Header>>

WfStep == WfNext \/ WfLogLine \/ WfLogEnd \/ WfDatLine \/ WfDatEnd \/ WfWriteRow

SpecWF == WfInit /\ [][WfStep]_vars

\* a field of a row holds a number
IsNumber(x) == x \in [hartree : Int, eV : Int]

\* C12: for a material whose _POTC.out has no 'FERMI ENERGY' line, getWF
\* does not raise and the row it reports has the Fermi-dependent fields
\* (WF top/bot/max/min, EFermi) absent, not numbers computed from a
\* placeholder Fermi energy.
C12_MissingFermi ==
    scr.script = "getWF" /\ ~scr.fermi /\ scr.V # <<>> =>
        /\ scr.pc # "raised"
        /\ scr.pc = "row" =>
               \A f \in {"WF0", "WF1", "WFmax", "WFmin", "EF_eV"} : ~IsNumber(scr.row[f])

----------------------------------------------------------------------------
(* Space-group dispatch: NewCifToD12.py, created12fromcifwithparsing.py,   *)
(* create_band_d3.py                                                       *)

\* the last space group of the International Tables
MaxSpaceGroup == 230

\* the space-group numbers given to the scripts: every valid one, and one
\* below and one above
SpaceGroups == 0..(MaxSpaceGroup + 1)

\* the centering letter of the SPACE GROUP line of a log ("" when the log
\* has no such line)
Centerings == {"P", "C", "F", "I", "A", "R", ""}

Dimensionalities == {"CRYSTAL", "SLAB", "MOLECULE"}

\* a whitespace-separated token of a deck line: a formatted number (the
\* lattice parameter it prints and its decimals, or a literal) or a word;
\* hash: the token begins with '#', the comment sign of the deck
Num(of, decimals) == [kind |-> "num", text |-> of, decimals |-> decimals, hash |-> FALSE]
Word(w) == [kind |-> "word", text |-> w, decimals |-> 0, hash |-> FALSE]
Hash(w) == [kind |-> "word", text |-> w, decimals |-> 0, hash |-> TRUE]

\* the tokens " alpha = beta = gamma = 90" etc. of the trailing comments
Eq3(x, y, z, v) == <<Word(x), Word("="), Word(y), Word("="), Word(z), Word("="), Num(v, 0)>>
Eq2(x, y, v) == <<Word(x), Word("="), Word(y), Word("="), Num(v, 0)>>
Hex120 == <<Word("alpha"), Word("="), Word("beta"), Word("="), Word("90,"),
            Word("gamma"), Word("="), Num("120", 0)>>

\* the branch of generate_unit_cell_line a space group takes
UnitCellSystem(spacegroup) ==
    IF spacegroup >= 1 /\ spacegroup <= 2 THEN "Triclinic"
    ELSE IF spacegroup >= 3 /\ spacegroup <= 15 THEN "Monoclinic"
    ELSE IF spacegroup >= 16 /\ spacegroup <= 74 THEN "Orthorhombic"
    ELSE IF spacegroup >= 75 /\ spacegroup <= 142 THEN "Tetragonal"
    ELSE IF spacegroup >= 143 /\ spacegroup <= 167 THEN "Trigonal"
    ELSE IF spacegroup >= 168 /\ spacegroup <= 194 THEN "Hexagonal"
    ELSE IF spacegroup >= 195 /\ spacegroup <= 230 THEN "Cubic"
    ELSE "ValueError"

\* the line each branch of generate_unit_cell_line returns, as tokens
UnitCellTokens(system) ==
    CASE system = "Triclinic" ->
             <<Num("a", 8), Num("b", 8), Num("c", 8), Num("alpha", 6), Num("beta", 6),
               Num("gamma", 6), Hash("#a,b,c,alpha,beta,gamma"), Word("Triclinic")>>
      [] system = "Monoclinic" ->
             <<Num("a", 8), Num("b", 8), Num("c", 8), Num("beta", 6),
               Hash("#a,b,c,beta"), Word("Monoclinic")>> \o Eq2("alpha", "gamma", "90")
      [] system = "Orthorhombic" ->
             <<Num("a", 8), Num("b", 8), Num("c", 8), Hash("#a,b,c"),
               Word("Orthorhombic")>> \o Eq3("alpha", "beta", "gamma", "90")
      [] system = "Tetragonal" ->
             <<Num("a", 8), Num("c", 8), Hash("#a=b,c"), Word("Tetragonal")>>
             \o Eq3("alpha", "beta", "gamma", "90")
      [] system = "Trigonal" ->
             <<Num("a", 8), Num("c", 8), Hash("#a=b,c"), Word("Trigonal")>> \o Hex120
      [] system = "Hexagonal" ->
             <<Num("a", 8), Num("c", 8), Hash("#a=b,c"), Word("Hexagonal")>> \o Hex120
      [] system = "Cubic" ->
             <<Num("a", 8), Hash("#a=b=c"), Word("cubic")>>
             \o Eq3("alpha", "beta", "gamma", "90")

\* generate_unit_cell_line without its else branch: any other number gets
\* the cubic line
GenerateUnitCellLine_NoRangeCheck(spacegroup) ==
    LET system == IF UnitCellSystem(spacegroup) = "ValueError" THEN "Cubic"
                  ELSE UnitCellSystem(spacegroup)
    IN  [raised |-> "none", system |-> system, tokens |-> UnitCellTokens(system)]

\* generate_unit_cell_line(spacegroup, a, b, c, alpha, beta, gamma)
GenerateUnitCellLine(spacegroup) ==
    LET system == UnitCellSystem(spacegroup)
    IN  IF system = "ValueError"
        THEN [raised |-> "ValueError", system |-> "none", tokens |-> <<>>]
        ELSE [raised |-> "none", system |-> system, tokens |-> UnitCellTokens(system)]

\* create_d12_file: the cell-parameter line after the structure type
CreateD12CellLine(dimensionality, spacegroup) ==
    CASE dimensionality = "CRYSTAL" -> GenerateUnitCellLine(spacegroup)
      [] dimensionality = "SLAB" ->
             [raised |-> "none", system |-> "none",
              tokens |-> <<Num("a", 8), Num("b", 8), Num("gamma", 6)>>]
      [] OTHER -> [raised |-> "none", system |-> "none", tokens |-> <<>>]

\* the decimal text of a space-group number, as a CIF file carries it
Digits(n) ==
    IF n < 10 THEN <<n>>
    ELSE IF n < 100 THEN <<n \div 10, n % 10>>
    ELSE <<n \div 100, (n \div 10) % 10, n % 10>>

RECURSIVE IntOf(_)
\* int(spacegroup) of that text
IntOf(digits) ==
    IF digits = <<>> THEN 0
    ELSE 10 * IntOf(SubSeq(digits, 1, Len(digits) - 1)) + digits[Len(digits)]

\* the same line as CIF2D12 formats it: six and four decimals, and its own
\* spelling of one word
Cif2D12Token(t) ==
    [t EXCEPT !.decimals = IF t.decimals = 8 THEN 6 ELSE IF t.decimals = 6 THEN 4 ELSE 0,
              !.text = IF t.text = "Orthorhombic" THEN "Orthorombic" ELSE t.text]

\* CIF2D12: the if/elif chain binding UC; no branch binds it outside 1..230
\* and print(UC) is then a NameError
Cif2D12CellLine(spacegroup) ==
    LET n == IntOf(spacegroup)
        system == IF n >= 1 /\ n <= 2 THEN "Triclinic"
                  ELSE IF n >= 3 /\ n <= 15 THEN "Monoclinic"
                  ELSE IF n >= 16 /\ n <= 74 THEN "Orthorhombic"
                  ELSE IF n >= 75 /\ n <= 142 THEN "Tetragonal"
                  ELSE IF n >= 143 /\ n <= 167 THEN "Trigonal"
                  ELSE IF n >= 168 /\ n <= 194 THEN "Hexagonal"
                  ELSE IF n >= 195 /\ n <= 230 THEN "Cubic"
                  ELSE "unbound"
    IN  IF system = "unbound"
        THEN [raised |-> "NameError", system |-> "none", tokens |-> <<>>]
        ELSE [raised |-> "none", system |-> system,
              tokens |-> [i \in 1..Len(UnitCellTokens(system)) |->
                             Cif2D12Token(UnitCellTokens(system)[i])]]

\* sym(input_lines, output_lines): the number on the deck line after the
\* structure type, the centering letter and the number of orbitals of the
\* log; sym_num stays unbound for any other structure type
Sym(dimensionality, spacegroup, letter, ao) ==
    IF dimensionality \in {"CRYSTAL", "SLAB"}
    THEN [raised |-> "none", sym_num |-> spacegroup, sym_name |-> letter,
          orbital_num |-> ao]
    ELSE [raised |-> "UnboundLocalError", sym_num |-> 0, sym_name |-> letter,
          orbital_num |-> ao]

\* writed3 with the tetragonal branch starting one number late
D3System_LateTetragonal(sym_num) ==
    IF sym_num <= 2 THEN "Triclinic"
    ELSE IF sym_num >= 3 /\ sym_num < 16 THEN "Monoclinic"
    ELSE IF sym_num >= 16 /\ sym_num <= 75 THEN "Orthorhombic"
    ELSE IF sym_num > 75 /\ sym_num < 143 THEN "Tetragonal"
    ELSE IF sym_num >= 143 /\ sym_num < 168 THEN "Trigonal"
    ELSE IF sym_num >= 168 /\ sym_num < 195 THEN "Hexagonal"
    ELSE IF sym_num >= 195 THEN "Cubic"
    ELSE "none"

\* the branch of writed3 a space-group number takes
D3System(sym_num) ==
    IF sym_num <= 2 THEN "Triclinic"
    ELSE IF sym_num >= 3 /\ sym_num < 16 THEN "Monoclinic"
    ELSE IF sym_num >= 16 /\ sym_num < 75 THEN "Orthorhombic"
    ELSE IF sym_num >= 75 /\ sym_num < 143 THEN "Tetragonal"
    ELSE IF sym_num >= 143 /\ sym_num < 168 THEN "Trigonal"
    ELSE IF sym_num >= 168 /\ sym_num < 195 THEN "Hexagonal"
    ELSE IF sym_num >= 195 THEN "Cubic"
    ELSE "none"

\* the template file of d3_input each branch opens for a centering letter
\* ("none": no `if sym_name ==` of the branch matches)
D3Template(system, sym_name) ==
    CASE system = "Triclinic" -> "Triclinic-Explicit.d3"
      [] system = "Monoclinic" /\ sym_name = "P" -> "Monoclinic_Simple.d3"
      [] system = "Monoclinic" /\ sym_name = "C" -> "Monoclinic_AC.d3"
      [] system = "Orthorhombic" /\ sym_name = "P" -> "Orthorombic_Simple.d3"
      [] system = "Orthorhombic" /\ sym_name = "C" -> "Orthorombic_AB.d3"
      [] system = "Orthorhombic" /\ sym_name = "F" -> "Orthorombic_FC.d3"
      [] system = "Orthorhombic" /\ sym_name = "I" -> "Orthorombic_BC.d3"
      [] system = "Orthorhombic" /\ sym_name = "A" -> "Orthorombic_AB.d3"
      [] system = "Tetragonal" /\ sym_name = "I" -> "Tetragonal_BC.d3"
      [] system = "Tetragonal" /\ sym_name = "P" -> "Tetragonal_Simple.d3"
      [] system = "Trigonal" /\ sym_name = "P" -> "Hexagonal.d3"
      [] system = "Trigonal" /\ sym_name = "R" -> "Rhombohedral.d3"
      [] system = "Hexagonal" -> "Hexagonal.d3"
      [] system = "Cubic" /\ sym_name = "P" -> "Cubic_Simple.d3"
      [] system = "Cubic" /\ sym_name = "F" -> "Cubic_FC.d3"
      [] system = "Cubic" /\ sym_name = "I" -> "Cubic_BC.d3"
      [] OTHER -> "none"

\* writed3: what the _BAND.d3 file holds when it returns: always the
\* NEWK/BAND header, then the path-count line and the k-path of the
\* template, if a branch opened one; it reports no error of its own
WriteD3(sym_num, sym_name, orbital_num) ==
    LET system == D3System(sym_num)
        template == D3Template(system, sym_name)
    IN  [raised |-> "none", system |-> system,
         deck |-> IF template = "none" THEN <<"NEWK", "48 48", "BAND", "output_name">>
                  ELSE <<"NEWK", "48 48", "BAND", "output_name", "count", template>>,
         kpath |-> template, orbital_num |-> orbital_num]

\* the loop body of create_band_d3 for one deck: sym, then writed3
BandD3(dimensionality, spacegroup, letter, ao) ==
    LET r == Sym(dimensionality, spacegroup, letter, ao)
    IN  IF r.raised # "none"
        THEN [raised |-> r.raised, system |-> "none", deck |-> <<>>, kpath |-> "none",
              orbital_num |-> ao]
        ELSE WriteD3(r.sym_num, r.sym_name, r.orbital_num)

NotRun == [raised |-> "not run", system |-> "none"]

\* create_d12_file writes the cell line of the structure
RunCreateD12 ==
    /\ scr.script = "decks" /\ scr.cell = NotRun
    /\ scr' = [scr EXCEPT !.cell = CreateD12CellLine(input.dimensionality, input.spacegroup)]
    /\ UNCHANGED <<input, output, queueVars>>

\* CIF2D12 selects the cell line for the space group read from the CIF file
RunCif2D12 ==
    /\ scr.script = "decks" /\ scr.uc = NotRun
    /\ scr' = [scr EXCEPT !.uc = Cif2D12CellLine(Digits(input.spacegroup))]
    /\ UNCHANGED <<input, output, queueVars>>

\* create_band_d3 writes the band deck of the structure
RunBandD3 ==
    /\ scr.script = "decks" /\ scr.d3 = NotRun
    /\ scr' = [scr EXCEPT !.d3 = BandD3(input.dimensionality, input.spacegroup,
                                        input.letter, input.ao)]
    /\ UNCHANGED <<input, output, queueVars>>

\* one structure given to the three deck writers
DeckInit ==
    /\ QueueAtRest
    /\ \E sg \in SpaceGroups, l \in Centerings, d \in Dimensionalities :
           input = [spacegroup |-> sg, letter |-> l, dimensionality |-> d, ao |-> 10]
    /\ scr = [script |-> "decks", cell |-> NotRun, uc |-> NotRun, d3 |-> NotRun]
    /\ output = <<>>

DeckNext == RunCreateD12 \/ RunCif2D12 \/ RunBandD3

SpecDeck == DeckInit /\ [][DeckNext]_vars

----------------------------------------------------------------------------
(* Properties of the deck writers                                          *)

\* the last space group of each crystal system, in the order of the
\* International Tables
SystemEnds ==
    <<[last |-> 2, system |-> "Triclinic"], [last |-> 15, system |-> "Monoclinic"],
      [last |-> 74, system |-> "Orthorhombic"], [last |-> 142, system |-> "Tetragonal"],
      [last |-> 167, system |-> "Trigonal"], [last |-> 194, system |-> "Hexagonal"],
      [last |-> 230, system |-> "Cubic"]>>

\* the crystal system of a space group 1..230 by that table
TableSystem(sg) ==
    LET k == CHOOSE i \in 1..Len(SystemEnds) :
                 /\ sg <= SystemEnds[i].last
                 /\ \A j \in 1..(i - 1) : sg > SystemEnds[j].last
    IN  SystemEnds[k].system

\* C13: for every space group 1..230, generate_unit_cell_line (through
\* create_d12_file of a CRYSTAL structure), the cell-line selection of
\* CIF2D12 and writed3 each take the branch of the crystal system the fixed
\* table gives, boundaries included, so the three agree with each other.
C13_Dispatch ==
    scr.script = "decks" /\ input.spacegroup \in 1..MaxSpaceGroup =>
        /\ scr.cell.raised # "not run" /\ input.dimensionality = "CRYSTAL" =>
               scr.cell.raised = "none" /\ scr.cell.system = TableSystem(input.spacegroup)
        /\ scr.uc.raised # "not run" =>
               scr.uc.raised = "none" /\ scr.uc.system = TableSystem(input.spacegroup)
        /\ scr.d3.raised # "not run" /\ input.dimensionality = "CRYSTAL" =>
               scr.d3.raised = "none" /\ scr.d3.system = TableSystem(input.spacegroup)

\* the three writers have run on space group 75, the first tetragonal one
C13_Witness ==
    /\ scr.script = "decks" /\ input.spacegroup = 75 /\ input.dimensionality = "CRYSTAL"
    /\ scr.cell.raised = "none" /\ scr.cell.system = "Tetragonal"
    /\ scr.uc.raised = "none" /\ scr.uc.system = "Tetragonal"
    /\ scr.d3.raised = "none" /\ scr.d3.system = "Tetragonal"

\* the lattice parameters a crystal system leaves free, in the order a deck
\* gives them
FreeParameters(system) ==
    CASE system = "Triclinic" -> <<"a", "b", "c", "alpha", "beta", "gamma">>
      [] system = "Monoclinic" -> <<"a", "b", "c", "beta">>
      [] system = "Orthorhombic" -> <<"a", "b", "c">>
      [] system \in {"Tetragonal", "Trigonal", "Hexagonal"} -> <<"a", "c">>
      [] system = "Cubic" -> <<"a">>

\* what the tokens of a line print
Texts(tokens) == [i \in 1..Len(tokens) |-> tokens[i].text]

\* the numeric tokens of a line
NumericTokens(tokens) == SelectSeq(tokens, LAMBDA t : t.kind = "num")

\* the tokens of a line before its comment
BeforeComment(tokens) ==
    LET marks == {i \in 1..Len(tokens) : tokens[i].hash}
    IN  IF marks = {} THEN tokens
        ELSE SubSeq(tokens, 1, (CHOOSE i \in marks : \A j \in marks : i <= j) - 1)

\* create_d12_file has written, or failed to write, the cell line of a
\* CRYSTAL structure
CellLineDone ==
    scr.script = "decks" /\ input.dimensionality = "CRYSTAL" /\ scr.cell.raised # "not run"

\* C14 as stated: the numeric tokens of the cell-parameter line of a deck
\* are exactly the free lattice parameters of the crystal system, in order
\* (one token for a cubic group, six for a triclinic one), and a space
\* group outside 1..230 raises ValueError and yields no line.
C14_NumericTokens ==
    CellLineDone =>
        IF input.spacegroup \in 1..MaxSpaceGroup
        THEN /\ scr.cell.raised = "none"
             /\ Texts(NumericTokens(scr.cell.tokens))
                    = FreeParameters(TableSystem(input.spacegroup))
        ELSE scr.cell.raised = "ValueError" /\ scr.cell.tokens = <<>>

\* C14 amended: the tokens of the cell-parameter line before its '#'
\* comment are all numeric and are exactly the free lattice parameters of
\* the crystal system, in order; the comment of every line but the
\* triclinic one carries further numeric tokens (90, 120); a space group
\* outside 1..230 raises ValueError and yields no line.
C14_ParametersBeforeComment ==
    CellLineDone =>
        IF input.spacegroup \in 1..MaxSpaceGroup
        THEN /\ scr.cell.raised = "none"
             /\ BeforeComment(scr.cell.tokens) = NumericTokens(BeforeComment(scr.cell.tokens))
             /\ Texts(BeforeComment(scr.cell.tokens))
                    = FreeParameters(TableSystem(input.spacegroup))
             /\ Len(BeforeComment(scr.cell.tokens)) < Len(scr.cell.tokens)
             /\ (NumericTokens(scr.cell.tokens) = BeforeComment(scr.cell.tokens))
                    <=> (TableSystem(input.spacegroup) = "Triclinic")
        ELSE scr.cell.raised = "ValueError" /\ scr.cell.tokens = <<>>

\* the cell line of the cubic space group 225 has been written
C14_Witness ==
    /\ CellLineDone /\ input.spacegroup = 225
    /\ Texts(BeforeComment(scr.cell.tokens)) = <<"a">>
    /\ Len(NumericTokens(scr.cell.tokens)) = 2

\* C15: when writed3 has no template file for the crystal system and the
\* centering letter it is given, it reports an error and emits no deck
\* (in particular no deck without a k-path).
C15_FailsLoudly ==
    /\ scr.script = "decks" /\ input.dimensionality = "CRYSTAL"
    /\ input.spacegroup \in 1..MaxSpaceGroup
    /\ scr.d3.raised # "not run"
    /\ D3Template(TableSystem(input.spacegroup), input.letter) = "none"
    => scr.d3.raised # "none" /\ scr.d3.deck = <<>>

----------------------------------------------------------------------------
(* Sorting finished and failed jobs: updatelists2.py                       *)

\* the longest .out file given to the categorizer, in lines
MaxOutLines == 2

\* ERROR_PATTERNS, in the order of the dictionary
ERROR_PATTERNS ==
    <<[category |-> "too_many_scf", keywords |-> {"TOO MANY CYCLES"}],
      [category |-> "memory", keywords |-> {"out-of-memory handler"}],
      [category |-> "quota", keywords |-> {"error during write"}],
      [category |-> "time", keywords |-> {"DUE TO TIME LIMIT"}],
      [category |-> "geometry_small_dist", keywords |-> {"**** NEIGHB ****"}],
      [category |-> "shrink_error", keywords |-> {"ANISOTROPIC SHRINKING FACTOR"}],
      [category |-> "linear_basis", keywords |-> {"BASIS SET LINEARLY DEPENDENT"}],
      [category |-> "potential",
       keywords |-> {"segmentation fault", "=   bad termination of", "abort(1) on node",
                     "srun: error:", "slurmstepd: error: ***", "forrtl: error (78):",
                     "Stack trace terminated abnormally."}]>>

ErrorCategories == {ERROR_PATTERNS[i].category : i \in 1..Len(ERROR_PATTERNS)}

\* categories: the keys of result_buckets
Categories == ErrorCategories \cup {"complete", "completesp", "unknown", "ongoing"}

\* a piece of text of a log line: the text as one of the literals of the
\* script spells it, and whether the line has it in that very case or in
\* another one (upper for lower, lower for upper)
Fragment(text, cased) == [text |-> text, cased |-> cased]

\* the texts the lines of the logs are made of: some of the known error
\* patterns, the two completion markers, the bare word error and a text
\* that matches nothing
FragmentTexts ==
    {"TOO MANY CYCLES", "error during write", "srun: error:", "segmentation fault",
     "OPT END", "    TOTAL CPU TIME =", "error", "SCF"}

Fragments == {Fragment(t, c) : t \in FragmentTexts, c \in {"same", "other"}}

\* a line of a log: the one or two fragments it contains
OutLines == {l \in SUBSET Fragments : Cardinality(l) \in 1..2}

\* the .out files of the directory: unreadable, or holding some lines
OutFiles ==
    {[readable |-> FALSE, lines |-> <<>>]}
    \cup {[readable |-> TRUE, lines |-> ls] :
              ls \in UNION {[1..n -> OutLines] : n \in 0..MaxOutLines}}

\* keyword.lower() in line.lower()
InLower(keyword, line) == \E f \in line : f.text = keyword

\* "OPT END" in line
InLine(literal, line) == \E f \in line : f.text = literal /\ f.cased = "same"

\* "error" in line.lower()
ErrorInLower(line) ==
    \E f \in line : f.text \in {"error", "error during write", "srun: error:",
                               "slurmstepd: error: ***", "forrtl: error (78):"}

\* the first category of ERROR_PATTERNS one of whose keywords is in the
\* line (0: none)
ErrorMatch(line) ==
    LET hits == {i \in 1..Len(ERROR_PATTERNS) :
                     \E k \in ERROR_PATTERNS[i].keywords : InLower(k, line)}
    IN  IF hits = {} THEN 0 ELSE CHOOSE i \in hits : \A j \in hits : i <= j

\* pd.concat([result_buckets[category], temp_df])
AddTo(buckets, category, name) ==
    [buckets EXCEPT ![category] = Append(@, name)]

\* the fallback of categorize_output_file with the word error looked for
\* in the line as it is
Fallback_CaseSensitive(lines) ==
    IF \E i \in 1..Len(lines) : \E f \in lines[i] : ErrorInLower({f}) /\ f.cased = "same"
    THEN "unknown" ELSE "ongoing"

\* the fallback of categorize_output_file: the generic word error
Fallback(lines) ==
    IF \E i \in 1..Len(lines) : ErrorInLower(lines[i]) THEN "unknown" ELSE "ongoing"

\* categorize_output_file looking for the completion markers before the
\* error patterns
CategorizeOutputFile_CompletionFirst(file, name, buckets) ==
    IF ~file.readable THEN buckets
    ELSE LET lines == file.lines
             errs == {i \in 1..Len(lines) : ErrorMatch(lines[i]) # 0}
             first == CHOOSE i \in errs : \A j \in errs : i <= j
             has_opt_end == \E i \in 1..Len(lines) : InLine("OPT END", lines[i])
             has_cpu_time == \E i \in 1..Len(lines) : InLine("    TOTAL CPU TIME =", lines[i])
         IN  IF has_opt_end THEN AddTo(buckets, "complete", name)
             ELSE IF has_cpu_time THEN AddTo(buckets, "completesp", name)
             ELSE IF errs # {}
             THEN AddTo(buckets, ERROR_PATTERNS[ErrorMatch(lines[first])].category, name)
             ELSE AddTo(buckets, Fallback(lines), name)

\* categorize_output_file(file_name): the buckets after the call
CategorizeOutputFile(file, name, buckets) ==
    IF ~file.readable THEN buckets
    ELSE LET lines == file.lines
             errs == {i \in 1..Len(lines) : ErrorMatch(lines[i]) # 0}
             first == CHOOSE i \in errs : \A j \in errs : i <= j
             has_opt_end == \E i \in 1..Len(lines) : InLine("OPT END", lines[i])
             has_cpu_time == \E i \in 1..Len(lines) : InLine("    TOTAL CPU TIME =", lines[i])
         IN  IF errs # {}
             THEN AddTo(buckets, ERROR_PATTERNS[ErrorMatch(lines[first])].category, name)
             ELSE IF has_opt_end THEN AddTo(buckets, "complete", name)
             ELSE IF has_cpu_time THEN AddTo(buckets, "completesp", name)
             ELSE AddTo(buckets, Fallback(lines), name)

\* the file names of the directory, as the pieces a '.' begins
OutNames ==
    {<<"a", ".out">>, <<"b", ".out">>, <<"a", ".out", ".out">>, <<"a", ".d12">>}

\* file.endswith(".out")
EndsWithOut(file_name) == file_name[Len(file_name)] = ".out"

\* file_name.split(".out")[0]: the name up to its first ".out"
SubmitName(file_name) ==
    LET at == {i \in 1..Len(file_name) : file_name[i] = ".out"}
    IN  IF at = {} THEN file_name
        ELSE SubSeq(file_name, 1, (CHOOSE i \in at : \A j \in at : i <= j) - 1)

\* temp_df: the row categorize_output_file adds for the file, with the
\* position of the file in the directory listing it was made for
TempDf(k) == [data_files |-> SubmitName(input.names[k]), file |-> k]

\* the main loop takes the next file of the directory, and categorizes it
\* if its name ends in .out
Categorize ==
    /\ scr.script = "updatelists2" /\ scr.pc = "loop" /\ scr.i <= Len(input.files)
    /\ output' = IF EndsWithOut(input.names[scr.i])
                 THEN [output EXCEPT !.buckets =
                          CategorizeOutputFile(input.files[scr.i], TempDf(scr.i), output.buckets)]
                 ELSE output
    /\ scr' = [scr EXCEPT !.i = @ + 1]
    /\ UNCHANGED <<input, queueVars>>

\* after the loop every non-empty bucket is printed and written to
\* <category>_list.csv
Export ==
    /\ scr.script = "updatelists2" /\ scr.pc = "loop" /\ scr.i > Len(input.files)
    /\ output' = [output EXCEPT !.csv = {c \in Categories : output.buckets[c] # <<>>}]
    /\ scr' = [scr EXCEPT !.pc = "done"]
    /\ UNCHANGED <<input, queueVars>>

\* the .out files of at most one line with one fragment
ShortFiles ==
    {f \in OutFiles : Len(f.lines) <= 1 /\ \A i \in 1..Len(f.lines) : Cardinality(f.lines[i]) = 1}

\* a directory with one .out file, or with two short files of different
\* names, and the empty buckets
ListsInit ==
    /\ QueueAtRest
    /\ \/ \E f \in OutFiles : input = [files |-> <<f>>, names |-> <<<<"a", ".out">>>>]
       \/ \E f, g \in ShortFiles : \E n, o \in OutNames :
              n # o /\ input = [files |-> <<f, g>>, names |-> <<n, o>>]
    /\ scr = [script |-> "updatelists2", pc |-> "loop", i |-> 1]
    /\ output = [buckets |-> [c \in Categories |-> <<>>], csv |-> {}]

ListsNext == Categorize \/ Export

SpecLists == ListsInit /\ [][ListsNext]_vars

\* the buckets that hold the row added for the k-th file
BucketsOf(k) ==
    {c \in Categories : \E i \in 1..Len(output.buckets[c]) : output.buckets[c][i].file = k}

\* the file has no known error pattern and no completion marker
NoPatternNoMarker(file) ==
    /\ file.readable
    /\ \A i \in 1..Len(file.lines) :
           /\ \A p \in 1..Len(ERROR_PATTERNS) :
                  \A k \in ERROR_PATTERNS[p].keywords : ~InLower(k, file.lines[i])
           /\ ~InLine("OPT END", file.lines[i])
           /\ ~InLine("    TOTAL CPU TIME =", file.lines[i])

\* C16: a readable .out file with no known error pattern, no 'OPT END' and
\* no '    TOTAL CPU TIME =' is put in the bucket unknown when some line
\* contains the word error in any case, in the bucket ongoing otherwise,
\* and in no other bucket.
C16_UnknownOrOngoing ==
    /\ scr.script = "updatelists2" /\ scr.i > 1
    /\ EndsWithOut(input.names[1]) /\ NoPatternNoMarker(input.files[1])
    =>  BucketsOf(1) = IF \E i \in 1..Len(input.files[1].lines) :
                              ErrorInLower(input.files[1].lines[i])
                       THEN {"unknown"} ELSE {"ongoing"}

\* a file whose only line says ERROR in capitals has been categorized and
\* the lists exported
C16_Witness ==
    /\ scr.script = "updatelists2" /\ scr.pc = "done"
    /\ input.files[1] = [readable |-> TRUE, lines |-> <<{Fragment("error", "other")}>>]
    /\ output.csv = {"unknown"}

----------------------------------------------------------------------------
(* Further properties of the queue manager                                 *)

\* C18: when --max-submit N is given, a process_queue run attempts at most
\* N submissions (none when N is not positive), however many jobs are
\* pending, and so succeeds in at most N.
C18_MaxSubmit ==
    pc = "submitting" /\ cycle.ms.given =>
        /\ Len(batch) <= Max(0, cycle.ms.n)
        /\ cycle.count <= Max(0, cycle.ms.n)

\* a run of the manager with --status: main calls print_status only
StatusRun ==
    \E d12 \in Listings(files), running \in RunningReads(queue), faults \in FaultChoices :
        PrintStatusWith(d12, running, faults)

\* C19: a run with --status submits nothing: no submission command reaches
\* the scheduler, no job enters the submitted map, and every job that was
\* pending is still pending after the run.
C19_StatusOnly ==
    [][StatusRun =>
           /\ queue' = queue /\ nextId' = nextId
           /\ SubmittedNames(job_status') \subseteq SubmittedNames(job_status)
           /\ PendingNames(job_status) \subseteq PendingNames(job_status')
           /\ pc' = "idle" /\ batch' = <<>>]_vars

\* a status run has recorded pending jobs while slots are free: the status
\* file lists a pending job and nothing was ever submitted
C19_Witness ==
    /\ pc = "idle" /\ nextId = 1 /\ queue = {}
    /\ job_status.pending # <<>> /\ job_status.submitted = <<>>
    /\ max_jobs - reserve_slots > 0
    /\ fs[status_file].exists /\ fs[status_file].data = Serialize(job_status)

\* C20: a job moves from submitted to completed only when its ID is no
\* longer in the scheduler's list of running jobs; in particular a failed
\* squeue query in update_job_status moves no running job to completed.
C20_CompletedOnlyWhenGone ==
    [][\A i \in 1..Len(job_status.submitted) :
           LET it == job_status.submitted[i]
           IN  InSeq(it.name, job_status'.completed) /\ ~InSeq(it.name, job_status.completed)
                   => it.id \notin queue]_vars

\* C21: a job that is in submitted or completed is never passed to
\* submit_job again, and no job name is attempted twice within a cycle:
\* the jobs a cycle has still to attempt are distinct pending jobs, none of
\* them submitted or completed, so each name is submitted at most once.
C21_SubmitOnce ==
    pc = "submitting" =>
        /\ \A i, j \in 1..Len(batch) : batch[i].name = batch[j].name => i = j
        /\ \A k \in idx..Len(batch) :
               /\ batch[k].name \notin SubmittedNames(job_status)
               /\ ~InSeq(batch[k].name, job_status.completed)
               /\ InSeq(batch[k].name, job_status.pending)

\* a later cycle is about to attempt a job while an earlier job is already
\* completed and its deck is still in the directory
C21_Witness ==
    /\ pc = "submitting"
    /\ \E f \in files : f[3] = "d12" /\ InSeq(f[2], job_status.completed)
    /\ \E f, g \in files : f[3] = "d12" /\ g[3] = "d12" /\ f[2] = g[2] /\ f[1] # g[1]

\* A job directory holding one deck per job name that does not change, on
\* storage that can fail under MaxFaults of the manager's saves
FaultyDeckInit ==
    /\ MgrInit
    /\ EmptyStore
    /\ NoTool
    /\ files = {<<Root, n, "d12">> : n \in Names}
    /\ faultsLeft = MaxFaults

SpecFaultyDecks == FaultyDeckInit /\ [][CapacityNext]_vars

\* the document load_status would read back from the current status path
Persisted == JsonLoad(fs[status_file])

\* C22: whenever process_queue is about to attempt a submission and the
\* last save did not fail, the persisted status document is complete and
\* records (as submitted, with its ID) every job submitted successfully
\* earlier in the same cycle.
C22_SavedBeforeNext ==
    pc = "submitting" /\ ~save_failed =>
        /\ fs[status_file].exists /\ Persisted.exc = "none"
        /\ \A k \in 1..(idx - 1) :
               \A i \in 1..Len(job_status.submitted) :
                   job_status.submitted[i].name = batch[k].name =>
                       \E j \in 1..Len(Persisted.data.submitted) :
                           Persisted.data.submitted[j] = job_status.submitted[i]

\* the second submission of a cycle is about to be attempted after the
\* first one succeeded and its save had to fall back to another location
C22_Witness ==
    /\ pc = "submitting" /\ idx = 2 /\ ~save_failed /\ status_file # Cfg
    /\ batch[1].name \in SubmittedNames(job_status)
    /\ ~fs[Cfg].exists

----------------------------------------------------------------------------
(* save_status call by call: a manager whose saves can fail at any         *)
(* statement of any location                                               *)

\* the statement of _try_save_status that raises IOError/OSError, if any
FaultKinds == {"none", "open", "write", "move"}

\* the faults of the up to three _try_save_status calls of one save_status
AnyFaults == [1..3 -> FaultKinds]

\* save_status() is called and returns; its locals are kept for inspection
SaveCall ==
    /\ scr.script = "save_status"
    /\ \E faults \in AnyFaults :
           LET sv == SaveStatus(fs, status_file, save_failed, job_status, faults)
           IN  /\ fs' = sv.fs
               /\ status_file' = sv.status_file
               /\ save_failed' = sv.save_failed
               /\ scr' = [script |-> "save_status", returned |-> TRUE,
                          tried |-> sv.tried, saved |-> sv.saved,
                          entry |-> [status_file |-> status_file, save_failed |-> save_failed,
                                     job_status |-> job_status]]
    /\ UNCHANGED <<job_status, max_jobs, reserve_slots, files, queue, nextId, pc, batch,
                   idx, cycle, faultsLeft, wrVars, loaded, input, output>>

\* between two saves the manager records another job as pending
JobRecorded ==
    /\ scr.script = "save_status"
    /\ \E doc \in SaveDocs \cup {DefaultStatus} : doc # job_status /\ job_status' = doc
    /\ scr' = [scr EXCEPT !.returned = FALSE]
    /\ UNCHANGED <<status_file, save_failed, max_jobs, reserve_slots, files, queue, nextId,
                   fs, pc, batch, idx, cycle, faultsLeft, wrVars, loaded, input, output>>

\* a manager as constructed on an empty store, before its first save
FallbackInit ==
    /\ QueueAtRest
    /\ input = <<>> /\ output = <<>>
    /\ scr = [script |-> "save_status", returned |-> FALSE, tried |-> <<>>, saved |-> FALSE,
              entry |-> [status_file |-> Cfg, save_failed |-> FALSE,
                         job_status |-> DefaultStatus]]

FallbackNext == SaveCall \/ JobRecorded

SpecFallback == FallbackInit /\ [][FallbackNext]_vars

\* what every save_status call leaves, whatever it tried
SaveOutcome ==
    /\ job_status = scr.entry.job_status
    /\ scr.saved =>
           /\ status_file = scr.tried[Len(scr.tried)] /\ ~save_failed
           /\ fs[status_file].exists /\ fs[status_file].data = Serialize(job_status)
    /\ ~scr.saved =>
           /\ save_failed /\ status_file = scr.entry.status_file
           /\ Home \in Range(scr.tried) /\ Tmp \in Range(scr.tried)

\* C23 as stated: save_status returns with the in-memory status unchanged;
\* it tries the configured path, then the home copy, then the temp copy,
\* each location at most once per call; the first success rebinds
\* status_file and clears save_failed; if all fail save_failed stays set.
C23_OncePerLocation ==
    scr.script = "save_status" /\ scr.returned =>
        /\ SaveOutcome
        /\ NoDup(scr.tried)

\* C23 amended: save_status makes at most three attempts per call: the
\* current status_file unless save_failed was set at entry, then the home
\* copy, then the temp copy, stopping at the first success; a location is
\* attempted twice in one call exactly when status_file had already been
\* rebound to it and the first attempt failed.
C23_BoundedFallback ==
    scr.script = "save_status" /\ scr.returned =>
        /\ SaveOutcome
        /\ scr.tried \in
               IF scr.entry.save_failed THEN {<<Home>>, <<Home, Tmp>>}
               ELSE {<<scr.entry.status_file>>, <<scr.entry.status_file, Home>>,
                     <<scr.entry.status_file, Home, Tmp>>}
        /\ ~NoDup(scr.tried) <=>
               /\ ~scr.entry.save_failed
               /\ \/ scr.entry.status_file = Home /\ Len(scr.tried) >= 2
                  \/ scr.entry.status_file = Tmp /\ Len(scr.tried) = 3

\* a save that found status_file rebound to the home copy, failed there,
\* and succeeded on the second attempt at the same location
C23_Witness ==
    /\ scr.script = "save_status" /\ scr.returned
    /\ scr.tried = <<Home, Home>> /\ scr.saved

\* the known error patterns a line contains, ignoring case, as positions
\* of their categories in ERROR_PATTERNS
PatternsIn(line) ==
    {p \in 1..Len(ERROR_PATTERNS) : \E k \in ERROR_PATTERNS[p].keywords : InLower(k, line)}

\* C24: a categorized file with a line matching a known error pattern is in
\* the bucket of the first category of ERROR_PATTERNS matching the first
\* such line, whatever completion markers it contains; without such a line
\* 'OPT END' puts it in complete, and '    TOTAL CPU TIME =' in completesp
\* only when there is no 'OPT END'.
C24_ErrorsFirst ==
    /\ scr.script = "updatelists2" /\ scr.i > 1
    /\ EndsWithOut(input.names[1]) /\ input.files[1].readable
    =>  LET lines == input.files[1].lines
            hit == {i \in 1..Len(lines) : PatternsIn(lines[i]) # {}}
        IN  /\ \A i \in hit :
                   (\A j \in hit : i <= j) =>
                       \A p \in PatternsIn(lines[i]) :
                           (\A q \in PatternsIn(lines[i]) : p <= q) =>
                               BucketsOf(1) = {ERROR_PATTERNS[p].category}
            /\ hit = {} /\ (\E i \in 1..Len(lines) : InLine("OPT END", lines[i])) =>
                   BucketsOf(1) = {"complete"}
            /\ hit = {} /\ (\A i \in 1..Len(lines) : ~InLine("OPT END", lines[i]))
                   /\ (\E i \in 1..Len(lines) : InLine("    TOTAL CPU TIME =", lines[i])) =>
                   BucketsOf(1) = {"completesp"}

\* a file with OPT END on its first line and two error patterns on its
\* second has been categorized by the pattern that comes first
C24_Witness ==
    /\ scr.script = "updatelists2" /\ scr.pc = "done"
    /\ input.files[1] = [readable |-> TRUE,
                         lines |-> <<{Fragment("OPT END", "same")},
                                     {Fragment("srun: error:", "same"),
                                      Fragment("TOO MANY CYCLES", "other")}>>]
    /\ output.csv = {"too_many_scf"}

\* the rows of all result buckets, each with its bucket
Rows ==
    UNION {{[category |-> c, at |-> i, row |-> output.buckets[c][i]] :
                i \in 1..Len(output.buckets[c])} : c \in Categories}

\* the files the main loop has taken that are readable .out files
ReadableOut ==
    {k \in 1..(scr.i - 1) : EndsWithOut(input.names[k]) /\ input.files[k].readable}

\* C25: every readable .out file taken by the main loop has been added to
\* exactly one bucket, once, and any other file to none, so the bucket
\* sizes sum to the number of readable .out files; and no name is listed
\* in two categories.
C25_ExactlyOneBucket ==
    scr.script = "updatelists2" =>
        /\ \A k \in 1..Len(input.files) :
               Cardinality({r \in Rows : r.row.file = k}) = IF k \in ReadableOut THEN 1 ELSE 0
        /\ \A c \in Categories :
               \A i, j \in 1..Len(output.buckets[c]) :
                   output.buckets[c][i].file = output.buckets[c][j].file => i = j
        /\ Cardinality(Rows) = Cardinality(ReadableOut)
        /\ \A r, q \in Rows : r.row.data_files = q.row.data_files => r.category = q.category

----------------------------------------------------------------------------
(* The transport-deck generator: create_Transportd3.py                     *)

\* band energies of the logs, in hartree
BandValues == {1, 2, 3}

\* a line without any keyword
Blank == Line("OTHER", 0)

\* the 'TOP OF VALENCE' and 'BOTTOM OF VIRTUAL' lines
ValueLines == {Line(k, v) : k \in {"TOP", "BOT"}, v \in BandValues}

\* up to n lines of band edges
Windows(n) == UNION {[1..k -> ValueLines] : k \in 0..n}

\* two lines, each a band edge or blank
Pairs == [1..2 -> ValueLines \cup {Blank}]

\* the section printed for a closed-shell gap: band edges, then the line of
\* the direct or indirect gap with its value
GapSections(n, gaps) ==
    {w \o <<Line(k, g)>> : w \in Windows(n), k \in {"DIRECT", "INDIRECT"}, g \in gaps}

\* the line of a conducting state with its Fermi energy
CondSections == {<<Line("COND", e)>> : e \in {1, 2}}

\* three band edges
Triples == [1..3 -> ValueLines]

\* the section printed for an open shell: the ALPHA ELECTRONS header, a
\* blank line and the alpha lines, the same for BETA, then blank lines
SpinSections(alphas, betas) ==
    {<<Line("ALPHA", 0), Blank>> \o a \o <<Line("BETA", 0), Blank>> \o b \o <<Blank, Blank, Blank>> :
         a \in alphas, b \in betas}

\* the sections of the logs made of two sections
SmallSections ==
    GapSections(1, {1, 2}) \cup CondSections
    \cup SpinSections({<<Line("TOP", 1), Line("BOT", 2)>>}, {<<Line("TOP", 1), Line("BOT", 2)>>})

\* the logs up to 'SCF ENDED': one section of any kind, or two small ones,
\* or none, after at most one blank line
TransportLogs ==
    {pre \o sec : pre \in {<<>>, <<Blank>>},
                  sec \in {<<>>} \cup GapSections(4, {1}) \cup CondSections
                          \cup SpinSections(Pairs, Pairs)
                          \cup SpinSections({<<Line("TOP", 1), Line("BOT", 2)>>}, Triples)
                          \cup {x \o y : x \in SmallSections, y \in SmallSections}}

\* the directories of two materials
TransportPairs ==
    [1..2 -> {<<Blank>>, <<Blank, Line("TOP", 1), Line("BOT", 2), Line("DIRECT", 1)>>}]

\* output_content.index(line), counted from 0
IndexOf(content, line) ==
    (CHOOSE k \in 1..Len(content) :
         content[k] = line /\ \A j \in 1..(k - 1) : content[j] # line) - 1

\* the loop "check which keyword applies": the index left for a keyword,
\* set at every line that has it and 0 when none has
ScanIndex(content, kind) ==
    LET at == {k \in 1..Len(content) : content[k].kind = kind}
    IN  IF at = {} THEN 0
        ELSE IndexOf(content, content[CHOOSE k \in at : \A j \in at : j <= k])

\* output_content[index] by Python's rules: negative indexes count from
\* the end, and an index outside the list raises IndexError
InList(content, index) == index < Len(content) /\ -index <= Len(content)

At(content, index) ==
    IF index >= 0 THEN content[index + 1] ELSE content[Len(content) + index + 1]

\* the values appended in for index in range(from, to + 1) for one keyword
Collect(content, from, to, kind) ==
    LET window == [k \in 1..(to - from + 1) |-> At(content, from + k - 1)]
        hits == SelectSeq(window, LAMBDA l : l.kind = kind)
    IN  [k \in 1..Len(hits) |-> hits[k].val]

\* the if/elif chain of get_bands on the five indexes
Branch(ix) ==
    IF ix.direct > ix.alpha /\ ix.direct > ix.beta /\ ix.direct > ix.cond
       /\ ix.direct > ix.indirect THEN "direct"
    ELSE IF ix.cond > ix.alpha /\ ix.cond > ix.beta /\ ix.cond > ix.direct
            /\ ix.cond > ix.indirect THEN "cond"
    ELSE IF ix.alpha > ix.cond /\ ix.alpha > ix.direct /\ ix.alpha > ix.indirect THEN "alpha"
    ELSE IF ix.indirect > ix.direct /\ ix.indirect > ix.cond /\ ix.indirect > ix.alpha
    THEN "indirect"
    ELSE "none"

\* the indexes a branch reads
Reads(ix, branch) ==
    CASE branch = "direct" -> (ix.direct - 4)..ix.direct
      [] branch = "indirect" -> (ix.indirect - 4)..ix.indirect
      [] branch = "cond" -> {ix.cond}
      [] branch = "alpha" -> ((ix.alpha + 2)..(ix.alpha + 6)) \cup ((ix.beta + 2)..(ix.beta + 6))
      [] OTHER -> {}

\* the four lists after the branch
Bands(content, ix, branch) ==
    CASE branch = "direct" ->
             LET v == Collect(content, ix.direct - 4, ix.direct, "TOP")
                 c == Collect(content, ix.direct - 4, ix.direct, "BOT")
             IN  [alpha_cond |-> c, alpha_val |-> v, beta_cond |-> c, beta_val |-> v]
      [] branch = "indirect" ->
             LET v == Collect(content, ix.indirect - 4, ix.indirect, "TOP")
                 c == Collect(content, ix.indirect - 4, ix.indirect, "BOT")
             IN  [alpha_cond |-> c, alpha_val |-> v, beta_cond |-> c, beta_val |-> v]
      [] branch = "cond" ->
             LET v == <<At(content, ix.cond).val>>
             IN  [alpha_cond |-> v, alpha_val |-> v, beta_cond |-> v, beta_val |-> v]
      [] branch = "alpha" ->
             [alpha_cond |-> Collect(content, ix.alpha + 2, ix.alpha + 6, "BOT"),
              alpha_val |-> Collect(content, ix.alpha + 2, ix.alpha + 6, "TOP"),
              beta_cond |-> Collect(content, ix.beta + 2, ix.beta + 6, "BOT"),
              beta_val |-> Collect(content, ix.beta + 2, ix.beta + 6, "TOP")]
      [] OTHER -> [alpha_cond |-> <<>>, alpha_val |-> <<>>, beta_cond |-> <<>>, beta_val |-> <<>>]

\* for shell in band: if float(shell) < float(band[0]): pick = shell
LastBelowFirst(band) ==
    LET at == {k \in 1..Len(band) : band[k] < band[1]}
    IN  IF at = {} THEN band[1] ELSE band[CHOOSE k \in at : \A j \in at : j <= k]

\* for shell in band: if float(shell) > float(band[0]): pick = shell
LastAboveFirst(band) ==
    LET at == {k \in 1..Len(band) : band[k] > band[1]}
    IN  IF at = {} THEN band[1] ELSE band[CHOOSE k \in at : \A j \in at : j <= k]

\* lines 98-139 of get_bands on four non-empty lists: the pair returned,
\* in eV
Reduce(b) ==
    LET min_alpha_c == LastBelowFirst(b.alpha_cond)
        max_alpha_v == LastAboveFirst(b.alpha_val)
        min_beta_c == LastBelowFirst(b.beta_cond)
        max_beta_v == LastBelowFirst(b.beta_val)
    IN  [min_c |-> EV(IF min_alpha_c > min_beta_c THEN min_beta_c ELSE min_alpha_c, 0),
         max_v |-> EV(IF max_alpha_v > max_beta_v THEN max_alpha_v ELSE max_beta_v, 0)]

NoIndexes == [alpha |-> 0, beta |-> 0, direct |-> 0, cond |-> 0, indirect |-> 0]

NoBands == [alpha_cond |-> <<>>, alpha_val |-> <<>>, beta_cond |-> <<>>, beta_val |-> <<>>]

\* the locals of the directory loop for material m
TransportLocals(m) ==
    [script |-> "create_Transportd3", pc |-> "scan", m |-> m, ix |-> NoIndexes,
     branch |-> "none", bands |-> NoBands, ret |-> [min_c |-> EV(0, 0), max_v |-> EV(0, 0)]]

\* for path in pathlist: the next log is read up to 'SCF ENDED'
TransportNext ==
    /\ scr.script = "create_Transportd3" /\ scr.pc = "next"
    /\ scr' = IF scr.m > Len(input.logs) THEN [scr EXCEPT !.pc = "done"]
              ELSE TransportLocals(scr.m)
    /\ UNCHANGED <<input, output, queueVars>>

\* get_bands: the loop recording the index of each keyword
TransportScan ==
    /\ scr.script = "create_Transportd3" /\ scr.pc = "scan"
    /\ LET content == input.logs[scr.m]
       IN  scr' = [scr EXCEPT !.pc = "extract",
                              !.ix = [alpha |-> ScanIndex(content, "ALPHA"),
                                      beta |-> ScanIndex(content, "BETA"),
                                      direct |-> ScanIndex(content, "DIRECT"),
                                      cond |-> ScanIndex(content, "COND"),
                                      indirect |-> ScanIndex(content, "INDIRECT")]]
    /\ UNCHANGED <<input, output, queueVars>>

\* get_bands: the branch of the last keyword collects the band edges; an
\* index outside the log raises IndexError
TransportExtract ==
    /\ scr.script = "create_Transportd3" /\ scr.pc = "extract"
    /\ LET content == input.logs[scr.m]
           branch == Branch(scr.ix)
       IN  scr' = IF \A index \in Reads(scr.ix, branch) : InList(content, index)
                  THEN [scr EXCEPT !.pc = "reduce", !.branch = branch,
                                   !.bands = Bands(content, scr.ix, branch)]
                  ELSE [scr EXCEPT !.pc = "raised", !.branch = branch]
    /\ UNCHANGED <<input, output, queueVars>>

\* get_bands: the placeholders, the four reductions and the return; an
\* empty list raises IndexError at its placeholder
TransportReduce ==
    /\ scr.script = "create_Transportd3" /\ scr.pc = "reduce"
    /\ scr' = IF \E f \in DOMAIN scr.bands : scr.bands[f] = <<>>
              THEN [scr EXCEPT !.pc = "raised"]
              ELSE [scr EXCEPT !.pc = "write", !.ret = Reduce(scr.bands)]
    /\ UNCHANGED <<input, output, queueVars>>

\* the loop body after get_bands: the ranges one eV around the band edges
\* and the _TRANSPORT.d3 deck of the material
TransportWrite ==
    /\ scr.script = "create_Transportd3" /\ scr.pc = "write"
    /\ output' = Append(output, [material |-> scr.m,
                                 val |-> EV(scr.ret.max_v.hartree, -1),
                                 cond |-> EV(scr.ret.min_c.hartree, 1)])
    /\ scr' = [scr EXCEPT !.pc = "next", !.m = @ + 1]
    /\ UNCHANGED <<input, queueVars>>

\* a directory with the log of one material, or of two
TransportInit ==
    /\ QueueAtRest
    /\ \/ \E log \in TransportLogs : input = [logs |-> <<log>>]
       \/ \E logs \in TransportPairs : input = [logs |-> logs]
    /\ scr = [TransportLocals(1) EXCEPT !.pc = "next"]
    /\ output = <<>>

TransportStep ==
    TransportNext \/ TransportScan \/ TransportExtract \/ TransportReduce \/ TransportWrite

SpecTransport == TransportInit /\ [][TransportStep]_vars

----------------------------------------------------------------------------
(* Properties of the transport-deck generator                              *)

\* the log get_bands is working on
Content == input.logs[scr.m]

\* the values of two lists together
Both(x, y) == Range(x) \cup Range(y)

\* C26: get_bands returns, in eV, the minimum of all collected
\* conduction-band values and the maximum of all collected valence-band
\* values, over the alpha and the beta lists together.
C26_MinAndMax ==
    scr.script = "create_Transportd3" /\ scr.pc = "write" =>
        /\ \E c \in Both(scr.bands.alpha_cond, scr.bands.beta_cond) :
               /\ scr.ret.min_c = EV(c, 0)
               /\ \A d \in Both(scr.bands.alpha_cond, scr.bands.beta_cond) : c <= d
        /\ \E v \in Both(scr.bands.alpha_val, scr.bands.beta_val) :
               /\ scr.ret.max_v = EV(v, 0)
               /\ \A w \in Both(scr.bands.alpha_val, scr.bands.beta_val) : v >= w

\* the keywords get_bands looks for, alpha and beta being one marker
Markers == {{"DIRECT"}, {"COND"}, {"ALPHA", "BETA"}, {"INDIRECT"}}

\* the positions, counted from 0, of the lines of some kinds
Positions(kinds) == {k - 1 : k \in {j \in 1..Len(Content) : Content[j].kind \in kinds}}

\* the greatest of a non-empty set of numbers
Greatest(S) == CHOOSE x \in S : \A y \in S : y <= x

\* the branch of get_bands for a marker
BranchOf(marker) ==
    CASE marker = {"DIRECT"} -> "direct"
      [] marker = {"COND"} -> "cond"
      [] marker = {"INDIRECT"} -> "indirect"
      [] OTHER -> "alpha"

\* C27: the index get_bands records for each keyword of the log is the
\* position of the last line with that keyword, and the branch it takes is
\* the one of the marker whose last line comes last in the log.
C27_LastMarker ==
    scr.script = "create_Transportd3" /\ scr.pc \in {"reduce", "write", "raised"} =>
        /\ Positions({"ALPHA"}) # {} => scr.ix.alpha = Greatest(Positions({"ALPHA"}))
        /\ Positions({"BETA"}) # {} => scr.ix.beta = Greatest(Positions({"BETA"}))
        /\ Positions({"DIRECT"}) # {} => scr.ix.direct = Greatest(Positions({"DIRECT"}))
        /\ Positions({"COND"}) # {} => scr.ix.cond = Greatest(Positions({"COND"}))
        /\ Positions({"INDIRECT"}) # {} => scr.ix.indirect = Greatest(Positions({"INDIRECT"}))
        /\ \A m \in Markers :
               /\ Positions(m) # {}
               /\ \A n \in Markers \ {m} :
                      Positions(n) # {} => Greatest(Positions(n)) < Greatest(Positions(m))
               => scr.branch = BranchOf(m)

\* C28: get_bands does not raise, and the directory loop goes on, when the
\* log has none of the keywords or the section it selects has no TOP OF
\* VALENCE or BOTTOM OF VIRTUAL line: it raises only when it reads a line
\* index outside the log.
C28_NotFoundNoRaise ==
    scr.script = "create_Transportd3" /\ scr.pc = "raised" =>
        /\ \E m \in Markers : Positions(m) # {}
        /\ \E index \in Reads(scr.ix, scr.branch) : ~InList(Content, index)

----------------------------------------------------------------------------
(* The optimized-geometry deck writer: get_optimized2.py                   *)

\* number of atoms of the optimized geometry
MaxAtoms == 2

\* the angle CRYSTAL prints for a right angle
Right == "90.000000"

\* conventional_cells: a, b, c and the three angles as printed
OptCells ==
    {<<"a", "b", "c", al, be, ga>> :
         al \in {Right, "alpha"}, be \in {Right, "beta"}, ga \in {Right, "gamma"}}

\* the lines of the existing deck after its coordinates: the keywords of
\* the optimization block, each with the value lines it takes
OptTails ==
    {<<Line("END", 0)>>,
     <<Line("OPTGEOM", 0), Line("FULLOPTG", 0), Line("MAXCYCLE", 0), Line("VALUE", 100),
       Line("ENDOPT", 0), Line("END", 0), Line("EXCHSIZE", 0), Line("VALUE", 110000000),
       Line("END", 0)>>}

\* the existing deck: title, CRYSTAL, the flags, the space group, the cell
\* line, the atom count and the coordinates, then the tail
ExistingD12(sg, tail) ==
    <<Line("TITLE", 0), Line("CRYSTAL", 0), Line("FLAGS", 0), Line("SG", sg),
      Line("CELL", <<>>), Line("COUNT", 1), Line("ATOM", 0)>> \o tail

\* the first loop of modify_d12 and the skip of the old coordinates: the
\* lines written, and the number of lines consumed
HeadLines(d12) ==
    LET c == CHOOSE k \in 1..Len(d12) :
                 d12[k].kind = "CRYSTAL" /\ \A j \in 1..(k - 1) : d12[j].kind # "CRYSTAL"
    IN  [written |-> SubSeq(d12, 1, c + 2), pos |-> c + 4 + d12[c + 4].val]

\* the unit cell line the CRYSTAL deck format takes for a space group
UnitCellLine(conventional_cell, spacegroupNM) ==
    IF spacegroupNM < 3 THEN <<Line("CELL", conventional_cell)>>
    ELSE IF spacegroupNM >= 3 /\ spacegroupNM <= 15 THEN
        \* for i in (3,5): ... break leaves the loop after i = 3
        IF conventional_cell[4] # Right
        THEN <<Line("CELL", SubSeq(conventional_cell, 1, 3) \o <<conventional_cell[4]>>)>>
        ELSE <<>>
    ELSE IF spacegroupNM >= 16 /\ spacegroupNM <= 74
    THEN <<Line("CELL", SubSeq(conventional_cell, 1, 3))>>
    ELSE IF spacegroupNM >= 75 /\ spacegroupNM <= 194
    THEN <<Line("CELL", <<conventional_cell[1], conventional_cell[3]>>)>>
    ELSE IF spacegroupNM >= 195 /\ spacegroupNM <= 230
    THEN <<Line("CELL", <<conventional_cell[1]>>)>>
    ELSE <<>>

\* lines n + 2 onwards: the line itself and n more are consumed
After(lines, n) == SubSeq(lines, n + 2, Len(lines))

\* the last loop of modify_d12: the optimization keywords are dropped with
\* their values, EXCHSIZE gets the SCF MAXCYCLE written after its value
RECURSIVE FilterTail(_)
FilterTail(lines) ==
    IF lines = <<>> THEN <<>>
    ELSE LET kw == Head(lines).kind
         IN  IF kw = "OPTGEOM" THEN FilterTail(After(lines, 0))
             ELSE IF kw = "MAXCYCLE" THEN FilterTail(After(lines, 1))
             ELSE IF kw = "MAXTRADIUS" THEN FilterTail(After(lines, 2))
             ELSE IF kw = "SUPERCEL" THEN FilterTail(After(lines, 4))
             ELSE IF kw = "EXCHSIZE"
             THEN <<lines[1], lines[2], Line("MAXCYCLE", 0), Line("VALUE", 800)>>
                  \o FilterTail(After(lines, 1))
             ELSE IF kw = "SLABCUT" THEN FilterTail(After(lines, 2))
             ELSE IF kw \in {"FULLOPTG", "ENDOPT", "ENDGEOM"} THEN FilterTail(After(lines, 0))
             ELSE <<lines[1]>> \o FilterTail(After(lines, 0))

\* modify_d12, up to the old coordinates
OptHead ==
    /\ scr.script = "get_optimized2" /\ scr.pc = "head"
    /\ output' = output \o HeadLines(input.d12).written
    /\ scr' = [scr EXCEPT !.pc = "cell", !.pos = HeadLines(input.d12).pos]
    /\ UNCHANGED <<input, queueVars>>

\* the unit cell parameters, according to the space group
OptCell ==
    /\ scr.script = "get_optimized2" /\ scr.pc = "cell"
    /\ output' = output \o UnitCellLine(input.conventional_cell, input.spacegroupNM)
    /\ scr' = [scr EXCEPT !.pc = "count"]
    /\ UNCHANGED <<input, queueVars>>

\* newd12.write(str(total_atoms) + "\n")
OptCount ==
    /\ scr.script = "get_optimized2" /\ scr.pc = "count"
    /\ output' = Append(output, Line("COUNT", input.total_atoms))
    /\ scr' = [scr EXCEPT !.pc = "atoms", !.i = 0]
    /\ UNCHANGED <<input, queueVars>>

\* for i in range(0, total_atoms): one coordinate line
OptAtom ==
    /\ scr.script = "get_optimized2" /\ scr.pc = "atoms"
    /\ scr.i < input.total_atoms
    /\ output' = Append(output, Line("ATOM", scr.i))
    /\ scr' = [scr EXCEPT !.i = scr.i + 1]
    /\ UNCHANGED <<input, queueVars>>

\* the rest of the existing deck
OptTail ==
    /\ scr.script = "get_optimized2" /\ scr.pc = "atoms"
    /\ scr.i >= input.total_atoms
    /\ output' = output \o FilterTail(SubSeq(input.d12, scr.pos + 1, Len(input.d12)))
    /\ scr' = [scr EXCEPT !.pc = "done"]
    /\ UNCHANGED <<input, queueVars>>

\* the call of modify_d12 of the main block: a numeric space group read
\* from the deck, the cell and the atoms read from the output file
OptInit ==
    /\ QueueAtRest
    /\ \E sg \in SpaceGroups, cell \in OptCells, n \in 0..MaxAtoms, tail \in OptTails :
           input = [d12 |-> ExistingD12(sg, tail), conventional_cell |-> cell,
                    spacegroupNM |-> sg, total_atoms |-> n]
    /\ scr = [script |-> "get_optimized2", pc |-> "head", pos |-> 0, i |-> 0]
    /\ output = <<>>

OptStep == OptHead \/ OptCell \/ OptCount \/ OptAtom \/ OptTail

SpecOpt == OptInit /\ [][OptStep]_vars

----------------------------------------------------------------------------
(* Properties of the optimized-geometry deck writer                        *)

\* the angles of a cell that are not right angles
Oblique(cell) == SelectSeq(SubSeq(cell, 4, 6), LAMBDA x : x # Right)

\* the free parameters of the crystal system of a space group
OptFree(sg, cell) ==
    IF sg < 3 THEN cell
    ELSE IF sg <= 15 THEN SubSeq(cell, 1, 3) \o Oblique(cell)
    ELSE IF sg <= 74 THEN SubSeq(cell, 1, 3)
    ELSE IF sg <= 194 THEN <<cell[1], cell[3]>>
    ELSE <<cell[1]>>

\* the positions of the lines of a kind in the new deck
NewLines(kind) == {k \in 1..Len(output) : output[k].kind = kind}

\* C29: the new deck has exactly one unit cell line, with the free
\* parameters of the crystal system of the space group (for a monoclinic
\* cell: a, b, c and its one angle that is not 90 degrees), followed by an
\* atom count line equal to the number of coordinate lines written.
C29_OneCellLine ==
    /\ scr.script = "get_optimized2" /\ scr.pc = "done"
    /\ input.spacegroupNM \in 1..MaxSpaceGroup
    /\ input.spacegroupNM \in 3..15 => Len(Oblique(input.conventional_cell)) = 1
    => /\ Cardinality(NewLines("CELL")) = 1
       /\ \A k \in NewLines("CELL") :
              /\ output[k].val = OptFree(input.spacegroupNM, input.conventional_cell)
              /\ output[k + 1].kind = "COUNT"
              /\ output[k + 1].val = Cardinality(NewLines("ATOM"))

----------------------------------------------------------------------------
(* Two invocations of the script on the same directory and status file     *)

\* the two processes, each one run of main(): a manager is constructed
\* (load_status), process_queue is called once, then print_status
Procs == {1, 2}

\* a process before its manager exists
NewRun == [pc |-> "new", js |-> DefaultStatus, batch |-> <<>>, idx |-> 1]

\* a manager constructed without reading the status file
RunLoad_Default(f) == DefaultStatus

\* load_status() in the constructor: what the process holds afterwards
RunLoad(f) == LoadFrom(f, LoadOrder(Cfg), 1).data

\* save_status() on sound storage
RunSave(f, js) == SaveStatus(f, Cfg, FALSE, js, NoFaults).fs

\* the other process is between its load and its return
Busy(p) == \E q \in Procs \ {p} : scr.run[q].pc \in {"ready", "submitting", "status"}

\* p constructs its manager
RunStart(p) ==
    /\ scr.script = "two_runs" /\ scr.run[p].pc = "new"
    /\ scr' = [scr EXCEPT !.run[p] = [@ EXCEPT !.pc = "ready", !.js = RunLoad(fs)],
                          !.overlap = @ \/ Busy(p)]
    /\ UNCHANGED <<job_status, status_file, save_failed, max_jobs, reserve_slots,
                   files, queue, nextId, fs, pc, batch, idx, cycle, faultsLeft>>
    /\ UNCHANGED <<wrVars, loaded, input, output>>

\* p runs process_queue up to the submission loop
RunBegin(p) ==
    /\ scr.script = "two_runs" /\ scr.run[p].pc = "ready"
    /\ \E d12 \in Listings(files), running \in RunningReads(queue),
          ms \in {NoMaxSubmit, [given |-> TRUE, n |-> 1]} :
           LET js == Reconcile(ScanNew(scr.run[p].js, d12), "ok", running)
               b == Batch(js, d12, max_jobs, reserve_slots,
                          GetCurrentJobs("ok", Cardinality(queue)), ms)
           IN  /\ fs' = RunSave(fs, js)
               /\ scr' = [scr EXCEPT !.run[p] =
                             [pc |-> IF b = <<>> THEN "status" ELSE "submitting",
                              js |-> js, batch |-> b, idx |-> 1]]
    /\ UNCHANGED <<job_status, status_file, save_failed, max_jobs, reserve_slots,
                   files, queue, nextId, pc, batch, idx, cycle, faultsLeft>>
    /\ UNCHANGED <<wrVars, loaded, input, output>>

\* one turn of p's submission loop; output is the list of the jobs the
\* scheduler accepted
RunSubmit(p) ==
    /\ scr.script = "two_runs" /\ scr.run[p].pc = "submitting"
    /\ nextId <= Len(IdStr)
    /\ \E run \in Runs(IdStr[nextId]) :
           LET me == scr.run[p]
               name == me.batch[me.idx].name
               r == SubmitJob(me.js, name, run)
               done == me.idx + 1 > Len(me.batch)
           IN  /\ fs' = IF r.ok THEN RunSave(fs, r.js) ELSE fs
               /\ queue' = IF run.queued THEN queue \cup {IdStr[nextId]} ELSE queue
               /\ nextId' = IF run.queued THEN nextId + 1 ELSE nextId
               /\ output' = IF run.queued
                            THEN Append(output, [by |-> p, name |-> name, saved |-> r.ok])
                            ELSE output
               /\ scr' = [scr EXCEPT !.run[p] =
                             [pc |-> IF done THEN "status" ELSE "submitting",
                              js |-> r.js, batch |-> me.batch, idx |-> me.idx + 1]]
    /\ UNCHANGED <<job_status, status_file, save_failed, max_jobs, reserve_slots,
                   files, pc, batch, idx, cycle, faultsLeft>>
    /\ UNCHANGED <<wrVars, loaded, input>>

\* the print_status() main calls after process_queue: update_job_status
\* once more, then p returns
RunStatus(p) ==
    /\ scr.script = "two_runs" /\ scr.run[p].pc = "status"
    /\ \E d12 \in Listings(files), running \in RunningReads(queue) :
           LET js == Reconcile(ScanNew(scr.run[p].js, d12), "ok", running)
           IN  /\ fs' = RunSave(fs, js)
               /\ scr' = [scr EXCEPT !.run[p] = [@ EXCEPT !.pc = "done", !.js = js]]
    /\ UNCHANGED <<job_status, status_file, save_failed, max_jobs, reserve_slots,
                   files, queue, nextId, pc, batch, idx, cycle, faultsLeft>>
    /\ UNCHANGED <<wrVars, loaded, input, output>>

\* a deck for every name, no status file yet, neither process started
TwoRunsInit ==
    /\ MgrInit
    /\ EmptyStore
    /\ reserve_slots = 0
    /\ files = {<<Root, n, "d12">> : n \in Names}
    /\ faultsLeft = 0
    /\ input = <<>>
    /\ scr = [script |-> "two_runs", run |-> [p \in Procs |-> NewRun], overlap |-> FALSE]
    /\ output = <<>>

TwoRunsNext ==
    \/ \E p \in Procs : RunStart(p)
    \/ \E p \in Procs : RunBegin(p)
    \/ \E p \in Procs : RunSubmit(p)
    \/ \E p \in Procs : RunStatus(p)
    \/ JobEnds

SpecTwoRuns == TwoRunsInit /\ [][TwoRunsNext]_vars

\* a job the scheduler accepted twice
Duplicate ==
    \E i, j \in 1..Len(output) : i < j /\ output[i].name = output[j].name

\* a submission that was saved and that the status file no longer records
LostUpdate ==
    \E i \in 1..Len(output) :
        /\ output[i].saved
        /\ ~KnownJob(JsonLoad(fs[Cfg]).data, output[i].name)
           \/ InSeq(output[i].name, JsonLoad(fs[Cfg]).data.pending)

\* C30: two invocations on the same directory and status file are not
\* safe: when they overlap a job can be submitted twice and a saved update
\* can be overwritten by the other's save; invocations that do not overlap
\* do neither.
C30_OnlyWhenOverlapping ==
    scr.script = "two_runs" /\ (Duplicate \/ LostUpdate) => scr.overlap

\* both processes have submitted the same job, and the status file has
\* lost a saved submission
C30_Witness ==
    /\ scr.script = "two_runs"
    /\ \E i, j \in 1..Len(output) :
           output[i].name = output[j].name /\ output[i].by # output[j].by
    /\ LostUpdate

====
